---- MODULE Spec2Model ----
(***************************************************************************)
(* State-machine model of the AUTOSAR COM layer of SSAS                    *)
(* (infras/communication/Com/Com.c).                                       *)
(*                                                                         *)
(* The build modelled defines COM_USE_CAN and COM_USE_SIGNAL_UPDATE_BIT.   *)
(* Bytes are naturals 0..255, buffers are functions over 0..len-1, so that *)
(* indices are those of the C arrays.                                      *)
(***************************************************************************)
EXTENDS Integers, Sequences, FiniteSets, TLC

(***************************************************************************)
(* Bounds of the model.                                                    *)
(***************************************************************************)
\* Number of Com_MainFunction ticks counted by the timing scenarios.
MaxTick == 12

(***************************************************************************)
(* Std_Types / Com.h values.                                               *)
(***************************************************************************)
E_OK == "E_OK"
E_NOT_OK == "E_NOT_OK"
\* Sentinel of a signal without update bit (Com.h).
COM_UPDATE_BIT_NOT_USED == -1

ScalarTypes == {"COM_SINT8", "COM_UINT8", "COM_SINT16", "COM_UINT16",
                "COM_SINT32", "COM_UINT32"}

\* A C array from a tuple: Arr(<<a, b>>)[0] = a.
Arr(s) == [i \in 0 .. (Len(s) - 1) |-> s[i + 1]]

\* A null pointer, and a pointer to the bytes `mem` (a C array).
NullPtr == [null |-> TRUE]
PtrTo(mem) == [null |-> FALSE, mem |-> mem]

\* A null rxConfig / txConfig.
NoCfg == [null |-> TRUE]

(***************************************************************************)
(* Configurations (instances of Com_Config, which Com_Cfg.c generates).    *)
(* The program is run under each of them; `cfg` names the one in use.      *)
(*                                                                         *)
(* SCHED1  group 0: I-PDU 0 RX Timeout 4 FirstTimeout 1, both callbacks    *)
(*                  I-PDU 1 TX CycleTime 5 FirstTime 2, both callbacks     *)
(*         group 1: empty                                                  *)
(* SCHED2  I-PDU 0 TX groups 0 and 1, CycleTime 2 FirstTime 0, no callback *)
(*         I-PDU 1 RX group 1, Timeout 2 FirstTimeout 0, RxTOut only       *)
(*         I-PDU 2 TX group 1, CycleTime 3 FirstTime 1, TxNotification     *)
(*         I-PDU 3 neither rxConfig nor txConfig, group 1                  *)
(* SIGTX   I-PDU 0 TX, two 4-bit signals sharing byte 0, update bits 8, 9  *)
(* SIGRX   I-PDU 0 RX, one 8-bit signal, update bit 8                      *)
(* SIGMISC I-PDU 0 TX, a COM_UINT8N signal group, a signal of a type and a *)
(*         signal of an endianness Com.c has no case for                   *)
(* TXTIMER I-PDU 0 TX groups 0 and 1, CycleTime 2 FirstTime 3              *)
(*         I-PDU 1 TX group 1, CycleTime 1 FirstTime 0                     *)
(*         I-PDU 2 TX group 0, CycleTime 0 FirstTime 2 (never re-armed)    *)
(*         used by the TX timer scenarios only                             *)
(***************************************************************************)
RxCfg(timeout, first, onRx, onTOut) ==
    [null |-> FALSE, Timeout |-> timeout, FirstTimeout |-> first,
     RxNotification |-> onRx, RxTOut |-> onTOut]

TxCfg(cycle, first, txPduId, onTx, onErr) ==
    [null |-> FALSE, CycleTime |-> cycle, FirstTime |-> first,
     TxPduId |-> txPduId, TxNotification |-> onTx,
     ErrorNotification |-> onErr]

IPdu(len, sigs, mask, rx, tx) ==
    [length |-> len, signals |-> sigs, GroupRefMask |-> mask,
     rxConfig |-> rx, txConfig |-> tx]

Signal(pdu, type, endian, pos, size, ub, init) ==
    [pdu |-> pdu, type |-> type, Endianness |-> endian, BitPosition |-> pos,
     BitSize |-> size, UpdateBit |-> ub, init |-> Arr(init)]

ConfigTable ==
    [ SCHED1 |->
        [ numOfGroups |-> 2,
          SignalConfigs |-> Arr(<<>>),
          IPduConfigs |-> Arr(<<
            IPdu(2, <<>>, {0}, RxCfg(4, 1, TRUE, TRUE), NoCfg),
            IPdu(1, <<>>, {0}, NoCfg, TxCfg(5, 2, 11, TRUE, TRUE)) >>) ],
      SCHED2 |->
        [ numOfGroups |-> 2,
          SignalConfigs |-> Arr(<<>>),
          IPduConfigs |-> Arr(<<
            IPdu(1, <<>>, {0, 1}, NoCfg, TxCfg(2, 0, 20, FALSE, FALSE)),
            IPdu(1, <<>>, {1}, RxCfg(2, 0, FALSE, TRUE), NoCfg),
            IPdu(1, <<>>, {1}, NoCfg, TxCfg(3, 1, 22, TRUE, FALSE)),
            IPdu(1, <<>>, {1}, NoCfg, NoCfg) >>) ],
      SIGTX |->
        [ numOfGroups |-> 1,
          SignalConfigs |-> Arr(<<
            Signal(0, "COM_UINT8", "LITTLE", 0, 4, 8, <<1, 0, 0, 0>>),
            Signal(0, "COM_SINT8", "BIG", 7, 4, 9, <<2, 0, 0, 0>>) >>),
          IPduConfigs |-> Arr(<<
            IPdu(2, <<0, 1>>, {0}, NoCfg, TxCfg(2, 0, 30, FALSE, FALSE)) >>) ],
      SIGRX |->
        [ numOfGroups |-> 1,
          SignalConfigs |-> Arr(<<
            Signal(0, "COM_UINT8", "LITTLE", 0, 8, 8, <<3, 0, 0, 0>>) >>),
          IPduConfigs |-> Arr(<<
            IPdu(2, <<0>>, {0}, RxCfg(2, 0, TRUE, FALSE), NoCfg) >>) ],
      SIGMISC |->
        [ numOfGroups |-> 1,
          SignalConfigs |-> Arr(<<
            Signal(0, "COM_UINT8N", "OPAQUE", 0, 8,
                   COM_UPDATE_BIT_NOT_USED, <<4>>),
            Signal(0, "COM_UNSUPPORTED", "LITTLE", 10, 2, 8, <<5, 0, 0, 0>>),
            Signal(0, "COM_UINT8", "UNKNOWN", 12, 2, 9, <<6, 0, 0, 0>>) >>),
          IPduConfigs |-> Arr(<<
            IPdu(2, <<0, 1, 2>>, {0}, NoCfg,
                 TxCfg(2, 0, 40, FALSE, FALSE)) >>) ],
      TXTIMER |->
        [ numOfGroups |-> 2,
          SignalConfigs |-> Arr(<<>>),
          IPduConfigs |-> Arr(<<
            IPdu(1, <<>>, {0, 1}, NoCfg, TxCfg(2, 3, 50, TRUE, TRUE)),
            IPdu(1, <<>>, {1}, NoCfg, TxCfg(1, 0, 51, FALSE, FALSE)),
            IPdu(1, <<>>, {0}, NoCfg, TxCfg(0, 2, 52, FALSE, FALSE)) >>) ] ]

\* The configurations of the TX timer scenarios, and those of all others.
TxTimerConfigs == {"TXTIMER"}
ConfigNames == DOMAIN ConfigTable \ TxTimerConfigs

(***************************************************************************)
(* State.                                                                  *)
(***************************************************************************)
VARIABLES
    cfg,          \* name of the configuration in use (never changes)
    GroupStatus,  \* Com_Config.context->GroupStatus, as the set of its 1 bits
    timer,        \* rxConfig->context->timer / txConfig->context->timer
    buf,          \* the I-PDU buffers IPduConfig->ptr
    initData,     \* the memory signal->initPtr points to
    fault,        \* "none", or the trap that ended the process
    op,           \* the API call made last: [name, id, arg]
    ret,          \* what it returned ("void" for a void function)
    calls,        \* the PduR calls and callbacks it made, in order
    out,          \* what it wrote through its output pointer
    now,          \* ticks counted by the timing scenarios
    hist,         \* per I-PDU history kept by the timing scenarios
    codec,        \* the packer scenarios: a signal, a buffer and results
    socketH,      \* simulator_can_v2.c: the static socketH
    threads       \* simulator_can_v2.c: the threads calling into it, the
                  \* rx_daemon threads, the handles allocated so far

progVars == <<cfg, GroupStatus, timer, buf, initData, fault>>
obsVars == <<op, ret, calls, out>>
canVars == <<socketH, threads>>
histVars == <<now, hist, codec, socketH, threads>>
vars == <<cfg, GroupStatus, timer, buf, initData, fault, op, ret, calls, out,
          now, hist, codec, socketH, threads>>

COM_CONFIG == ConfigTable[cfg]
SignalConfigs == COM_CONFIG.SignalConfigs
IPduConfigs == COM_CONFIG.IPduConfigs
numOfSignals == Cardinality(DOMAIN SignalConfigs)
numOfIPdus == Cardinality(DOMAIN IPduConfigs)
numOfGroups == COM_CONFIG.numOfGroups

SignalIds == DOMAIN SignalConfigs
PduIds == DOMAIN IPduConfigs

HasRx(p) == ~IPduConfigs[p].rxConfig.null
HasTx(p) == ~IPduConfigs[p].txConfig.null
\* GroupStatus & IPduConfig->GroupRefMask
Active(p) == (GroupStatus \cap IPduConfigs[p].GroupRefMask) # {}

(***************************************************************************)
(* Std_Bit.h: single bits, LSB first within each byte, and the two field   *)
(* codecs.                                                                 *)
(***************************************************************************)
Pow2(n) == 2 ^ n

\* Bit `i` (0 = LSB) of the natural `v`.
BitOf(v, i) == (v \div Pow2(i)) % 2

\* uint32_t values are bit vectors: w[i] is bit i (0 = LSB).
WordBits == 0 .. 31
WordOnes == [i \in WordBits |-> 1]
WordAnd(a, b) == [i \in WordBits |-> a[i] * b[i]]
WordOr(a, b) == [i \in WordBits |-> IF a[i] + b[i] > 0 THEN 1 ELSE 0]
WordNot(a) == [i \in WordBits |-> 1 - a[i]]
\* a >> n, for 0 <= n < 32
WordShr(a, n) == [i \in WordBits |-> IF i + n \in WordBits THEN a[i + n] ELSE 0]
WordIsZero(a) == \A i \in WordBits : a[i] = 0

\* *(uintN_t *)mem, N = 8 * nbytes, zero-extended to 32 bits (the host is
\* little endian).
ReadUnsigned(mem, nbytes) ==
    [i \in WordBits |-> IF i < 8 * nbytes THEN BitOf(mem[i \div 8], i % 8)
                        ELSE 0]

\* The bytes of the object stored by *(intN_t *)p = (intN_t)w or
\* *(uintN_t *)p = (uintN_t)w: the low N bits of w.
StoreBytes(w, nbytes) ==
    [k \in 0 .. (nbytes - 1) |->
        w[8 * k] + 2 * w[8 * k + 1] + 4 * w[8 * k + 2] + 8 * w[8 * k + 3]
        + 16 * w[8 * k + 4] + 32 * w[8 * k + 5] + 64 * w[8 * k + 6]
        + 128 * w[8 * k + 7]]

Std_BitGet(ptr, pos) == BitOf(ptr[pos \div 8], pos % 8) = 1

\* The buffer whose bit at position q (byte q \div 8, bit q % 8) is f(q).
FromBits(ptr, f(_)) ==
    [i \in DOMAIN ptr |->
        f(8 * i) + 2 * f(8 * i + 1) + 4 * f(8 * i + 2) + 8 * f(8 * i + 3)
        + 16 * f(8 * i + 4) + 32 * f(8 * i + 5) + 64 * f(8 * i + 6)
        + 128 * f(8 * i + 7)]

Std_BitSet(ptr, pos) ==
    FromBits(ptr, LAMBDA q : IF q = pos THEN 1 ELSE BitOf(ptr[q \div 8], q % 8))

Std_BitClear(ptr, pos) ==
    FromBits(ptr, LAMBDA q : IF q = pos THEN 0 ELSE BitOf(ptr[q \div 8], q % 8))

\* Little endian: bit k of the field is at position start + k.
Std_BitSetLittleEndian(ptr, v, start, size) ==
    FromBits(ptr, LAMBDA q :
        IF q >= start /\ q < start + size
        THEN v[q - start]
        ELSE BitOf(ptr[q \div 8], q % 8))

Std_BitGetLittleEndian(ptr, start, size) ==
    [k \in WordBits |->
        IF k < size THEN BitOf(ptr[(start + k) \div 8], (start + k) % 8)
        ELSE 0]

\* Big endian: the field's most significant bit is at `start`; the j-th bit
\* after it is one lower in the byte, or bit 7 of the next byte.
BigEndianPos(start, j) ==
    LET n == j + 7 - (start % 8)
    IN  8 * ((start \div 8) + (n \div 8)) + (7 - (n % 8))

Std_BitSetBigEndian(ptr, v, start, size) ==
    FromBits(ptr, LAMBDA q :
        IF \E j \in 0 .. (size - 1) : BigEndianPos(start, j) = q
        THEN v[size - 1
               - (CHOOSE j \in 0 .. (size - 1) : BigEndianPos(start, j) = q)]
        ELSE BitOf(ptr[q \div 8], q % 8))

Std_BitGetBigEndian(ptr, start, size) ==
    [k \in WordBits |->
        IF k < size
        THEN BitOf(ptr[BigEndianPos(start, size - 1 - k) \div 8],
                   BigEndianPos(start, size - 1 - k) % 8)
        ELSE 0]

\* memcpy(dst, src, n): the first n bytes of dst replaced by those of src.
memcpy(dst, src, n) == [i \in DOMAIN dst |-> IF i < n THEN src[i] ELSE dst[i]]

NoOut == [written |-> FALSE]
OutBytes(b) == [written |-> TRUE, bytes |-> b]

(***************************************************************************)
(* Signal packer (Com.c locals).  A signal's `ptr` is the buffer of its    *)
(* I-PDU; the operators take that buffer and return the new one.           *)
(***************************************************************************)
\* Faulty variant of comStoreSignalValue: no sign bits are added.
comStoreSignalValue_NoSignBits(signal, sigV0) ==
    LET mask == WordShr(WordOnes, 32 - signal.BitSize)
        sigV == WordAnd(sigV0, mask)
    IN  CASE signal.type \in {"COM_SINT8", "COM_UINT8"} ->
               [ret |-> E_OK, out |-> OutBytes(StoreBytes(sigV, 1))]
          [] signal.type \in {"COM_SINT16", "COM_UINT16"} ->
               [ret |-> E_OK, out |-> OutBytes(StoreBytes(sigV, 2))]
          [] signal.type \in {"COM_SINT32", "COM_UINT32"} ->
               [ret |-> E_OK, out |-> OutBytes(StoreBytes(sigV, 4))]
          [] OTHER ->
               [ret |-> E_NOT_OK, out |-> NoOut]

comStoreSignalValue(signal, sigV0) ==
    LET mask == WordShr(WordOnes, 32 - signal.BitSize)
        sigV == WordAnd(sigV0, mask)
        signmask == WordNot(WordShr(mask, 1))
        ext == IF ~WordIsZero(WordAnd(sigV, signmask))
               THEN WordOr(sigV, signmask)
               ELSE sigV
    IN  CASE signal.type = "COM_SINT8" ->
               [ret |-> E_OK, out |-> OutBytes(StoreBytes(ext, 1))]
          [] signal.type = "COM_UINT8" ->
               [ret |-> E_OK, out |-> OutBytes(StoreBytes(sigV, 1))]
          [] signal.type = "COM_SINT16" ->
               [ret |-> E_OK, out |-> OutBytes(StoreBytes(ext, 2))]
          [] signal.type = "COM_UINT16" ->
               [ret |-> E_OK, out |-> OutBytes(StoreBytes(sigV, 2))]
          [] signal.type = "COM_SINT32" ->
               [ret |-> E_OK, out |-> OutBytes(StoreBytes(ext, 4))]
          [] signal.type = "COM_UINT32" ->
               [ret |-> E_OK, out |-> OutBytes(StoreBytes(sigV, 4))]
          [] OTHER ->
               [ret |-> E_NOT_OK, out |-> NoOut]

comGetSignalValue(signal, mem) ==
    CASE signal.type \in {"COM_SINT8", "COM_UINT8"} ->
           [ret |-> E_OK, sigV |-> ReadUnsigned(mem, 1)]
      [] signal.type \in {"COM_SINT16", "COM_UINT16"} ->
           [ret |-> E_OK, sigV |-> ReadUnsigned(mem, 2)]
      [] signal.type \in {"COM_SINT32", "COM_UINT32"} ->
           [ret |-> E_OK, sigV |-> ReadUnsigned(mem, 4)]
      [] OTHER ->
           [ret |-> E_NOT_OK, sigV |-> WordNot(WordOnes)]

comReceiveSignalBig(signal, ptr) ==
    comStoreSignalValue(signal,
        Std_BitGetBigEndian(ptr, signal.BitPosition, signal.BitSize))

\* Faulty variant of comSendSignalBig: the field is written in little-endian
\* order.
comSendSignalBig_AsLittle(signal, ptr, mem) ==
    LET g == comGetSignalValue(signal, mem)
    IN  [ret |-> g.ret,
         ptr |-> IF g.ret = E_OK
                 THEN Std_BitSetLittleEndian(ptr, g.sigV, signal.BitPosition,
                                             signal.BitSize)
                 ELSE ptr]

comSendSignalBig(signal, ptr, mem) ==
    LET g == comGetSignalValue(signal, mem)
    IN  [ret |-> g.ret,
         ptr |-> IF g.ret = E_OK
                 THEN Std_BitSetBigEndian(ptr, g.sigV, signal.BitPosition,
                                          signal.BitSize)
                 ELSE ptr]

comReceiveSignalLittle(signal, ptr) ==
    comStoreSignalValue(signal,
        Std_BitGetLittleEndian(ptr, signal.BitPosition, signal.BitSize))

\* Faulty variant of comSendSignalLittle: the byte the field starts in is
\* cleared before the field is written.
comSendSignalLittle_ClearByte(signal, ptr, mem) ==
    LET g == comGetSignalValue(signal, mem)
    IN  [ret |-> g.ret,
         ptr |-> IF g.ret = E_OK
                 THEN Std_BitSetLittleEndian(
                          [ptr EXCEPT ![signal.BitPosition \div 8] = 0],
                          g.sigV, signal.BitPosition, signal.BitSize)
                 ELSE ptr]

comSendSignalLittle(signal, ptr, mem) ==
    LET g == comGetSignalValue(signal, mem)
    IN  [ret |-> g.ret,
         ptr |-> IF g.ret = E_OK
                 THEN Std_BitSetLittleEndian(ptr, g.sigV, signal.BitPosition,
                                             signal.BitSize)
                 ELSE ptr]

\* The update-bit gate of comReceiveSignal: closed when the signal has an
\* update bit and it is clear.
UpdateGateClosed(signal, ptr) ==
    /\ signal.UpdateBit # COM_UPDATE_BIT_NOT_USED
    /\ ~Std_BitGet(ptr, signal.UpdateBit)

\* Faulty variant of comReceiveSignal: the update bit is tested but not cleared.
comReceiveSignal_NoClear(signal, ptr) ==
    IF UpdateGateClosed(signal, ptr)
    THEN [ret |-> E_NOT_OK, ptr |-> ptr, out |-> NoOut]
    ELSE
      LET n == signal.BitSize \div 8
          r == IF signal.type = "COM_UINT8N" \/ signal.Endianness = "OPAQUE"
               THEN [ret |-> E_OK,
                     out |-> OutBytes([i \in 0 .. (n - 1) |-> ptr[i]])]
               ELSE CASE signal.Endianness = "BIG" ->
                           comReceiveSignalBig(signal, ptr)
                      [] signal.Endianness = "LITTLE" ->
                           comReceiveSignalLittle(signal, ptr)
                      [] OTHER -> [ret |-> E_NOT_OK, out |-> NoOut]
      IN  [ret |-> r.ret, ptr |-> ptr, out |-> r.out]

\* [ret, ptr, out]: the return value, the I-PDU buffer afterwards, and what
\* was stored through SignalDataPtr.
comReceiveSignal(signal, ptr) ==
    IF UpdateGateClosed(signal, ptr)
    THEN [ret |-> E_NOT_OK, ptr |-> ptr, out |-> NoOut]
    ELSE
      LET ptr1 == IF signal.UpdateBit # COM_UPDATE_BIT_NOT_USED
                  THEN Std_BitClear(ptr, signal.UpdateBit)
                  ELSE ptr
          n == signal.BitSize \div 8
          r == IF signal.type = "COM_UINT8N" \/ signal.Endianness = "OPAQUE"
               THEN [ret |-> E_OK,
                     out |-> OutBytes([i \in 0 .. (n - 1) |-> ptr1[i]])]
               ELSE CASE signal.Endianness = "BIG" ->
                           comReceiveSignalBig(signal, ptr1)
                      [] signal.Endianness = "LITTLE" ->
                           comReceiveSignalLittle(signal, ptr1)
                      [] OTHER -> [ret |-> E_NOT_OK, out |-> NoOut]
      IN  [ret |-> r.ret, ptr |-> ptr1, out |-> r.out]

\* [ret, ptr]: the return value and the I-PDU buffer afterwards; `mem` is
\* the memory at SignalDataPtr.
comSendSignal(signal, ptr, mem) ==
    LET r == IF signal.type = "COM_UINT8N" \/ signal.Endianness = "OPAQUE"
             THEN [ret |-> E_OK,
                   ptr |-> memcpy(ptr, mem, signal.BitSize \div 8)]
             ELSE CASE signal.Endianness = "BIG" ->
                         comSendSignalBig(signal, ptr, mem)
                    [] signal.Endianness = "LITTLE" ->
                         comSendSignalLittle(signal, ptr, mem)
                    [] OTHER -> [ret |-> E_NOT_OK, ptr |-> ptr]
    IN  [ret |-> r.ret,
         ptr |-> IF signal.UpdateBit # COM_UPDATE_BIT_NOT_USED
                 THEN Std_BitSet(r.ptr, signal.UpdateBit)
                 ELSE r.ptr]

\* Whether comSendSignal reads the memory at SignalDataPtr.
SendReadsSource(signal) ==
    \/ signal.type = "COM_UINT8N"
    \/ signal.Endianness = "OPAQUE"
    \/ (signal.Endianness \in {"BIG", "LITTLE"} /\ signal.type \in ScalarTypes)

\* The I-PDU buffer after comIPduDataInit.
comIPduDataInit(IPduConfig, ptr0) ==
    LET RECURSIVE Loop(_, _)
        Loop(i, ptr) ==
            IF i > Len(IPduConfig.signals) THEN ptr
            ELSE LET sid == IPduConfig.signals[i]
                 IN  Loop(i + 1,
                          comSendSignal(SignalConfigs[sid], ptr,
                                        initData[sid]).ptr)
    IN  Loop(1, ptr0)

\* Faulty variant of comTxClearUpdateBit: only the first signal's update bit is
\* cleared.
comTxClearUpdateBit_First(IPduConfig, ptr0) ==
    IF Len(IPduConfig.signals) > 0
       /\ SignalConfigs[IPduConfig.signals[1]].UpdateBit
            # COM_UPDATE_BIT_NOT_USED
    THEN Std_BitClear(ptr0, SignalConfigs[IPduConfig.signals[1]].UpdateBit)
    ELSE ptr0

\* The I-PDU buffer after comTxClearUpdateBit.
comTxClearUpdateBit(IPduConfig, ptr0) ==
    LET RECURSIVE Loop(_, _)
        Loop(i, ptr) ==
            IF i > Len(IPduConfig.signals) THEN ptr
            ELSE LET signal == SignalConfigs[IPduConfig.signals[i]]
                 IN  Loop(i + 1,
                          IF signal.UpdateBit # COM_UPDATE_BIT_NOT_USED
                          THEN Std_BitClear(ptr, signal.UpdateBit)
                          ELSE ptr)
    IN  Loop(1, ptr0)

(***************************************************************************)
(* Inputs of the API calls.                                                *)
(***************************************************************************)
\* Memory a caller passes to Com_SendSignal.
SrcMems == {Arr(<<0, 0, 0, 0>>), Arr(<<90, 165, 0, 0>>)}
SrcPtrs == {NullPtr} \cup {PtrTo(m) : m \in SrcMems}
\* Destination pointers of Com_ReceiveSignal: null or valid.
DstPtrs == {NullPtr, [null |-> FALSE]}
\* Frames PduR indicates: SduDataPtr and SduLength (0 to 3 bytes).
Frames == {[SduDataPtr |-> Arr(d), SduLength |-> Len(d)] :
              d \in {<<>>, <<129>>, <<17, 1>>, <<34, 0, 51>>}}
\* SduLength of the frame PduR offers to Com_TriggerTransmit.
Capacities == {0, 1, 2}
\* Handles, one past the end included.
SignalIdArgs == SignalIds \cup {numOfSignals}
PduIdArgs == PduIds \cup {numOfIPdus}
GroupIdArgs == (0 .. (numOfGroups - 1)) \cup {numOfGroups}
Results == {E_OK, E_NOT_OK}

OpRec(name, id, arg) == [name |-> name, id |-> id, arg |-> arg]
Call(fn, pdu, r) == [fn |-> fn, pdu |-> pdu, ret |-> r]
Obs(o, r, c, w) == op' = o /\ ret' = r /\ calls' = c /\ out' = w

\* History of one I-PDU in the timing scenarios:
\*   steady  a group of it was started at tick 0 and it has stayed enabled
\*           since (the scenarios restart no group, call no
\*           Com_TriggerIPDUSend and deliver no frame that is accepted)
\*   last, ok, prev, prevOk   tick and result of its last two transmit
\*           attempts (-1: none);  failed: some attempt failed
\*   touts, toutAt   number of RxTOut calls, tick of the last one
HistInit == [steady |-> FALSE, last |-> -1, ok |-> TRUE, prev |-> -1,
             prevOk |-> TRUE, failed |-> FALSE, touts |-> 0, toutAt |-> -1]

(***************************************************************************)
(* The state after Com_Init, under each configuration.  Timers and buffers *)
(* are zero-initialised statics.                                           *)
(***************************************************************************)
InitUnder(names) ==
    /\ cfg \in names
    /\ GroupStatus = {}
    /\ timer = [p \in PduIds |-> 0]
    /\ buf = [p \in PduIds |-> [i \in 0 .. (IPduConfigs[p].length - 1) |-> 0]]
    /\ initData = [s \in SignalIds |-> SignalConfigs[s].init]
    /\ fault = "none"
    /\ op = OpRec("Com_Init", 0, 0)
    /\ ret = "void"
    /\ calls = <<>>
    /\ out = NoOut
    /\ now = 0
    /\ hist = [p \in PduIds |-> HistInit]

\* Outside the packer scenarios `codec` is idle; outside the CAN simulator
\* scenarios the simulator is not in use.
Idle == [stage |-> "idle"]
NoCan == socketH = Idle /\ threads = Idle

Init == InitUnder(ConfigNames) /\ codec = Idle /\ NoCan

(***************************************************************************)
(* Com.c functions, one action each.                                       *)
(***************************************************************************)
Com_Init ==
    /\ fault = "none"
    /\ GroupStatus' = {}
    /\ UNCHANGED <<cfg, timer, buf, initData, fault>>
    /\ Obs(OpRec("Com_Init", 0, 0), "void", <<>>, NoOut)

\* Faulty variant of StartTimer: FirstTime and FirstTimeout are used even
\* when they are 0.
StartTimer_FirstOnly(i) ==
    LET IPduConfig == IPduConfigs[i]
    IN  IF HasRx(i) THEN IPduConfig.rxConfig.FirstTimeout
        ELSE IF HasTx(i) THEN IPduConfig.txConfig.FirstTime
        ELSE timer[i]

\* The timer Com_IpduGroupStart arms I-PDU i with.
StartTimer(i) ==
    LET IPduConfig == IPduConfigs[i]
    IN  IF HasRx(i)
        THEN IF IPduConfig.rxConfig.FirstTimeout > 0
             THEN IPduConfig.rxConfig.FirstTimeout
             ELSE IPduConfig.rxConfig.Timeout
        ELSE IF HasTx(i)
        THEN IF IPduConfig.txConfig.FirstTime > 0
             THEN IPduConfig.txConfig.FirstTime
             ELSE IPduConfig.txConfig.CycleTime
        ELSE timer[i]

\* Faulty variant of Com_IpduGroupStart: the timer of an I-PDU that is already
\* enabled through another group is left running.
Com_IpduGroupStart_KeepRunning(IpduGroupId, initialize) ==
    /\ fault = "none"
    /\ IF IpduGroupId < numOfGroups
       THEN /\ GroupStatus' = GroupStatus \cup {IpduGroupId}
            /\ timer' = [i \in PduIds |->
                          IF IpduGroupId \in IPduConfigs[i].GroupRefMask
                             /\ ~Active(i)
                          THEN StartTimer(i) ELSE timer[i]]
            /\ buf' = [i \in PduIds |->
                        IF IpduGroupId \in IPduConfigs[i].GroupRefMask
                           /\ initialize
                        THEN comIPduDataInit(IPduConfigs[i], buf[i])
                        ELSE buf[i]]
       ELSE UNCHANGED <<GroupStatus, timer, buf>>
    /\ UNCHANGED <<cfg, initData, fault>>
    /\ Obs(OpRec("Com_IpduGroupStart", IpduGroupId, initialize), "void",
           <<>>, NoOut)

Com_IpduGroupStart(IpduGroupId, initialize) ==
    /\ fault = "none"
    /\ IF IpduGroupId < numOfGroups
       THEN /\ GroupStatus' = GroupStatus \cup {IpduGroupId}
            /\ timer' = [i \in PduIds |->
                          IF IpduGroupId \in IPduConfigs[i].GroupRefMask
                          THEN StartTimer(i) ELSE timer[i]]
            /\ buf' = [i \in PduIds |->
                        IF IpduGroupId \in IPduConfigs[i].GroupRefMask
                           /\ initialize
                        THEN comIPduDataInit(IPduConfigs[i], buf[i])
                        ELSE buf[i]]
       ELSE UNCHANGED <<GroupStatus, timer, buf>>
    /\ UNCHANGED <<cfg, initData, fault>>
    /\ Obs(OpRec("Com_IpduGroupStart", IpduGroupId, initialize), "void",
           <<>>, NoOut)

\* Faulty variant of Com_IpduGroupStop: every group is stopped.
Com_IpduGroupStop_All(IpduGroupId) ==
    /\ fault = "none"
    /\ GroupStatus' = IF IpduGroupId < numOfGroups THEN {} ELSE GroupStatus
    /\ UNCHANGED <<cfg, timer, buf, initData, fault>>
    /\ Obs(OpRec("Com_IpduGroupStop", IpduGroupId, 0), "void", <<>>, NoOut)

Com_IpduGroupStop(IpduGroupId) ==
    /\ fault = "none"
    /\ GroupStatus' = IF IpduGroupId < numOfGroups
                      THEN GroupStatus \ {IpduGroupId}
                      ELSE GroupStatus
    /\ UNCHANGED <<cfg, timer, buf, initData, fault>>
    /\ Obs(OpRec("Com_IpduGroupStop", IpduGroupId, 0), "void", <<>>, NoOut)

Com_ReceiveSignal(SignalId, SignalDataPtr) ==
    /\ fault = "none"
    /\ IF SignalId < numOfSignals /\ ~SignalDataPtr.null
       THEN LET signal == SignalConfigs[SignalId]
                r == comReceiveSignal(signal, buf[signal.pdu])
            IN  /\ buf' = [buf EXCEPT ![signal.pdu] = r.ptr]
                /\ Obs(OpRec("Com_ReceiveSignal", SignalId, SignalDataPtr),
                       r.ret, <<>>, r.out)
       ELSE /\ UNCHANGED buf
            /\ Obs(OpRec("Com_ReceiveSignal", SignalId, SignalDataPtr),
                   E_NOT_OK, <<>>, NoOut)
    /\ UNCHANGED <<cfg, GroupStatus, timer, initData, fault>>

\* Com_SendSignal passes SignalDataPtr on unchecked.  Reading through a null
\* pointer is undefined: the process traps, or the read yields some bytes.
Com_SendSignal(SignalId, SignalDataPtr) ==
    /\ fault = "none"
    /\ IF SignalId < numOfSignals
       THEN LET signal == SignalConfigs[SignalId]
                Send(mem) ==
                    LET r == comSendSignal(signal, buf[signal.pdu], mem)
                    IN  /\ buf' = [buf EXCEPT ![signal.pdu] = r.ptr]
                        /\ UNCHANGED fault
                        /\ Obs(OpRec("Com_SendSignal", SignalId, SignalDataPtr),
                               r.ret, <<>>, NoOut)
            IN  IF ~SignalDataPtr.null
                THEN Send(SignalDataPtr.mem)
                ELSE IF ~SendReadsSource(signal)
                THEN Send(Arr(<<0, 0, 0, 0>>))
                ELSE \/ /\ fault' = "SIGSEGV"
                        /\ UNCHANGED buf
                        /\ Obs(OpRec("Com_SendSignal", SignalId, SignalDataPtr),
                               "none", <<>>, NoOut)
                     \/ \E mem \in SrcMems : Send(mem)
       ELSE /\ UNCHANGED <<buf, fault>>
            /\ Obs(OpRec("Com_SendSignal", SignalId, SignalDataPtr),
                   E_NOT_OK, <<>>, NoOut)
    /\ UNCHANGED <<cfg, GroupStatus, timer, initData>>

Com_SendSignalGroup(SignalGroupId) ==
    /\ fault = "none"
    /\ IF SignalGroupId < numOfSignals
          /\ SignalConfigs[SignalGroupId].type = "COM_UINT8N"
       THEN LET signal == SignalConfigs[SignalGroupId]
            IN  /\ buf' = [buf EXCEPT ![signal.pdu] =
                             memcpy(@, initData[SignalGroupId],
                                    signal.BitSize \div 8)]
                /\ Obs(OpRec("Com_SendSignalGroup", SignalGroupId, 0), E_OK,
                       <<>>, NoOut)
       ELSE /\ UNCHANGED buf
            /\ Obs(OpRec("Com_SendSignalGroup", SignalGroupId, 0), E_NOT_OK,
                   <<>>, NoOut)
    /\ UNCHANGED <<cfg, GroupStatus, timer, initData, fault>>

\* Faulty variant of Com_ReceiveSignalGroup: ret starts as E_OK.
Com_ReceiveSignalGroup_RetInitOk(SignalGroupId) ==
    /\ fault = "none"
    /\ IF SignalGroupId < numOfSignals
          /\ SignalConfigs[SignalGroupId].type = "COM_UINT8N"
       THEN LET signal == SignalConfigs[SignalGroupId]
            IN  initData' = [initData EXCEPT ![SignalGroupId] =
                               memcpy(@, buf[signal.pdu],
                                      signal.BitSize \div 8)]
       ELSE UNCHANGED initData
    /\ Obs(OpRec("Com_ReceiveSignalGroup", SignalGroupId, 0), E_OK, <<>>,
           NoOut)
    /\ UNCHANGED <<cfg, GroupStatus, timer, buf, fault>>

Com_ReceiveSignalGroup(SignalGroupId) ==
    /\ fault = "none"
    /\ IF SignalGroupId < numOfSignals
          /\ SignalConfigs[SignalGroupId].type = "COM_UINT8N"
       THEN LET signal == SignalConfigs[SignalGroupId]
            IN  /\ initData' = [initData EXCEPT ![SignalGroupId] =
                                  memcpy(@, buf[signal.pdu],
                                         signal.BitSize \div 8)]
                /\ Obs(OpRec("Com_ReceiveSignalGroup", SignalGroupId, 0),
                       E_OK, <<>>, NoOut)
       ELSE /\ UNCHANGED initData
            /\ Obs(OpRec("Com_ReceiveSignalGroup", SignalGroupId, 0),
                   E_NOT_OK, <<>>, NoOut)
    /\ UNCHANGED <<cfg, GroupStatus, timer, buf, fault>>

\* `result` is what PduR_ComTransmit returns if it is called.
Com_TriggerIPDUSend(PduId, result) ==
    /\ fault = "none"
    /\ IF PduId < numOfIPdus /\ HasTx(PduId) /\ Active(PduId)
       THEN /\ timer' = [timer EXCEPT ![PduId] =
                           IF result = E_OK
                           THEN IPduConfigs[PduId].txConfig.CycleTime
                           ELSE 1]
            /\ Obs(OpRec("Com_TriggerIPDUSend", PduId, 0), E_OK,
                   <<Call("PduR_ComTransmit", PduId, result)>>, NoOut)
       ELSE /\ UNCHANGED timer
            /\ Obs(OpRec("Com_TriggerIPDUSend", PduId, 0), E_NOT_OK, <<>>,
                   NoOut)
    /\ UNCHANGED <<cfg, GroupStatus, buf, initData, fault>>

\* Faulty variant of Com_RxIndication: a frame that is too short is dropped,
\* but re-arms the timer.
Com_RxIndication_ShortRearm(RxPduId, PduInfoPtr) ==
    /\ fault = "none"
    /\ IF /\ RxPduId < numOfIPdus
          /\ HasRx(RxPduId)
          /\ Active(RxPduId)
       THEN LET IPduConfig == IPduConfigs[RxPduId]
                long == IPduConfig.length <= PduInfoPtr.SduLength
            IN  /\ buf' = [buf EXCEPT ![RxPduId] =
                             IF long
                             THEN memcpy(@, PduInfoPtr.SduDataPtr,
                                         IPduConfig.length)
                             ELSE @]
                /\ timer' = [timer EXCEPT ![RxPduId] =
                               IPduConfig.rxConfig.Timeout]
                /\ Obs(OpRec("Com_RxIndication", RxPduId, PduInfoPtr), "void",
                       IF long /\ IPduConfig.rxConfig.RxNotification
                       THEN <<Call("RxNotification", RxPduId, "void")>>
                       ELSE <<>>,
                       NoOut)
       ELSE /\ UNCHANGED <<buf, timer>>
            /\ Obs(OpRec("Com_RxIndication", RxPduId, PduInfoPtr), "void",
                   <<>>, NoOut)
    /\ UNCHANGED <<cfg, GroupStatus, initData, fault>>

\* Faulty variant of Com_RxIndication: the timer is re-armed as at group start.
Com_RxIndication_FirstTimeout(RxPduId, PduInfoPtr) ==
    /\ fault = "none"
    /\ IF /\ RxPduId < numOfIPdus
          /\ HasRx(RxPduId)
          /\ Active(RxPduId)
          /\ IPduConfigs[RxPduId].length <= PduInfoPtr.SduLength
       THEN LET IPduConfig == IPduConfigs[RxPduId]
            IN  /\ buf' = [buf EXCEPT ![RxPduId] =
                             memcpy(@, PduInfoPtr.SduDataPtr, IPduConfig.length)]
                /\ timer' = [timer EXCEPT ![RxPduId] = StartTimer(RxPduId)]
                /\ Obs(OpRec("Com_RxIndication", RxPduId, PduInfoPtr), "void",
                       IF IPduConfig.rxConfig.RxNotification
                       THEN <<Call("RxNotification", RxPduId, "void")>>
                       ELSE <<>>,
                       NoOut)
       ELSE /\ UNCHANGED <<buf, timer>>
            /\ Obs(OpRec("Com_RxIndication", RxPduId, PduInfoPtr), "void",
                   <<>>, NoOut)
    /\ UNCHANGED <<cfg, GroupStatus, initData, fault>>

Com_RxIndication(RxPduId, PduInfoPtr) ==
    /\ fault = "none"
    /\ IF /\ RxPduId < numOfIPdus
          /\ HasRx(RxPduId)
          /\ Active(RxPduId)
          /\ IPduConfigs[RxPduId].length <= PduInfoPtr.SduLength
       THEN LET IPduConfig == IPduConfigs[RxPduId]
            IN  /\ buf' = [buf EXCEPT ![RxPduId] =
                             memcpy(@, PduInfoPtr.SduDataPtr, IPduConfig.length)]
                /\ timer' = [timer EXCEPT ![RxPduId] =
                               IPduConfig.rxConfig.Timeout]
                /\ Obs(OpRec("Com_RxIndication", RxPduId, PduInfoPtr), "void",
                       IF IPduConfig.rxConfig.RxNotification
                       THEN <<Call("RxNotification", RxPduId, "void")>>
                       ELSE <<>>,
                       NoOut)
       ELSE /\ UNCHANGED <<buf, timer>>
            /\ Obs(OpRec("Com_RxIndication", RxPduId, PduInfoPtr), "void",
                   <<>>, NoOut)
    /\ UNCHANGED <<cfg, GroupStatus, initData, fault>>

\* Faulty variant of Com_TriggerTransmit: a frame of exactly the I-PDU's length
\* is refused.
Com_TriggerTransmit_Strict(TxPduId, capacity) ==
    /\ fault = "none"
    /\ IF TxPduId < numOfIPdus /\ IPduConfigs[TxPduId].length < capacity
       THEN Obs(OpRec("Com_TriggerTransmit", TxPduId, capacity), E_OK, <<>>,
                OutBytes(buf[TxPduId]))
       ELSE Obs(OpRec("Com_TriggerTransmit", TxPduId, capacity), E_NOT_OK,
                <<>>, NoOut)
    /\ UNCHANGED progVars

\* `capacity` is PduInfoPtr->SduLength on entry.
Com_TriggerTransmit(TxPduId, capacity) ==
    /\ fault = "none"
    /\ IF TxPduId < numOfIPdus /\ IPduConfigs[TxPduId].length <= capacity
       THEN Obs(OpRec("Com_TriggerTransmit", TxPduId, capacity), E_OK, <<>>,
                OutBytes(buf[TxPduId]))
       ELSE Obs(OpRec("Com_TriggerTransmit", TxPduId, capacity), E_NOT_OK,
                <<>>, NoOut)
    /\ UNCHANGED progVars

\* Faulty variant of Com_TxConfirmation: the two callbacks are swapped.
Com_TxConfirmation_Swapped(TxPduId, result) ==
    /\ fault = "none"
    /\ Obs(OpRec("Com_TxConfirmation", TxPduId, result), "void",
           IF TxPduId < numOfIPdus /\ HasTx(TxPduId) /\ Active(TxPduId)
           THEN IF result = E_OK
                THEN IF IPduConfigs[TxPduId].txConfig.ErrorNotification
                     THEN <<Call("ErrorNotification", TxPduId, "void")>>
                     ELSE <<>>
                ELSE IF IPduConfigs[TxPduId].txConfig.TxNotification
                     THEN <<Call("TxNotification", TxPduId, "void")>>
                     ELSE <<>>
           ELSE <<>>,
           NoOut)
    /\ UNCHANGED progVars

Com_TxConfirmation(TxPduId, result) ==
    /\ fault = "none"
    /\ Obs(OpRec("Com_TxConfirmation", TxPduId, result), "void",
           IF TxPduId < numOfIPdus /\ HasTx(TxPduId) /\ Active(TxPduId)
           THEN IF result = E_OK
                THEN IF IPduConfigs[TxPduId].txConfig.TxNotification
                     THEN <<Call("TxNotification", TxPduId, "void")>>
                     ELSE <<>>
                ELSE IF IPduConfigs[TxPduId].txConfig.ErrorNotification
                     THEN <<Call("ErrorNotification", TxPduId, "void")>>
                     ELSE <<>>
           ELSE <<>>,
           NoOut)
    /\ UNCHANGED progVars

\* Faulty variant of MainRxLoop: the timer is re-armed with Timeout when it expires.
RECURSIVE MainRxLoop_Rearm(_, _)
MainRxLoop_Rearm(i, st) ==
    IF i >= numOfIPdus THEN st
    ELSE
      IF HasRx(i) /\ Active(i) /\ st.timer[i] > 0
      THEN LET t == st.timer[i] - 1
           IN  MainRxLoop_Rearm(i + 1,
                 [timer |-> [st.timer EXCEPT ![i] =
                               IF t = 0 THEN IPduConfigs[i].rxConfig.Timeout
                               ELSE t],
                  calls |-> IF t = 0 /\ IPduConfigs[i].rxConfig.RxTOut
                            THEN Append(st.calls, Call("RxTOut", i, "void"))
                            ELSE st.calls])
      ELSE MainRxLoop_Rearm(i + 1, st)

\* The loop of Com_MainFunctionRx from I-PDU i on; st = [timer, calls].
RECURSIVE MainRxLoop(_, _)
MainRxLoop(i, st) ==
    IF i >= numOfIPdus THEN st
    ELSE
      IF HasRx(i) /\ Active(i) /\ st.timer[i] > 0
      THEN LET t == st.timer[i] - 1
           IN  MainRxLoop(i + 1,
                 [timer |-> [st.timer EXCEPT ![i] = t],
                  calls |-> IF t = 0 /\ IPduConfigs[i].rxConfig.RxTOut
                            THEN Append(st.calls, Call("RxTOut", i, "void"))
                            ELSE st.calls])
      ELSE MainRxLoop(i + 1, st)

\* Faulty variants of MainTxStep: without the I-PDU group check, re-arming one tick
\* short, and re-arming with the cycle time after a failed transmit.
MainTxStep_NoGate(i, st, res) ==
    IF HasTx(i) /\ st.timer[i] > 0
    THEN IF st.timer[i] - 1 = 0
         THEN [timer |-> [st.timer EXCEPT ![i] =
                            IF res[i] = E_OK
                            THEN IPduConfigs[i].txConfig.CycleTime ELSE 1],
               buf |-> IF res[i] = E_OK
                       THEN [st.buf EXCEPT ![i] =
                               comTxClearUpdateBit(IPduConfigs[i], @)]
                       ELSE st.buf,
               calls |-> Append(st.calls, Call("PduR_ComTransmit", i, res[i]))]
         ELSE [st EXCEPT !.timer[i] = @ - 1]
    ELSE st

MainTxStep_RearmShort(i, st, res) ==
    IF HasTx(i) /\ Active(i) /\ st.timer[i] > 0
    THEN IF st.timer[i] - 1 = 0
         THEN [timer |-> [st.timer EXCEPT ![i] =
                            IF res[i] = E_OK
                            THEN IF IPduConfigs[i].txConfig.CycleTime > 1
                                 THEN IPduConfigs[i].txConfig.CycleTime - 1
                                 ELSE 1
                            ELSE 1],
               buf |-> IF res[i] = E_OK
                       THEN [st.buf EXCEPT ![i] =
                               comTxClearUpdateBit(IPduConfigs[i], @)]
                       ELSE st.buf,
               calls |-> Append(st.calls, Call("PduR_ComTransmit", i, res[i]))]
         ELSE [st EXCEPT !.timer[i] = @ - 1]
    ELSE st

MainTxStep_NoRetry(i, st, res) ==
    IF HasTx(i) /\ Active(i) /\ st.timer[i] > 0
    THEN IF st.timer[i] - 1 = 0
         THEN [timer |-> [st.timer EXCEPT ![i] =
                            IPduConfigs[i].txConfig.CycleTime],
               buf |-> IF res[i] = E_OK
                       THEN [st.buf EXCEPT ![i] =
                               comTxClearUpdateBit(IPduConfigs[i], @)]
                       ELSE st.buf,
               calls |-> Append(st.calls, Call("PduR_ComTransmit", i, res[i]))]
         ELSE [st EXCEPT !.timer[i] = @ - 1]
    ELSE st

\* One iteration of the loop of Com_MainFunctionTx, for I-PDU i;
\* st = [timer, buf, calls], res[i] is what PduR_ComTransmit returns for i.
MainTxStep(i, st, res) ==
    IF HasTx(i) /\ Active(i) /\ st.timer[i] > 0
    THEN IF st.timer[i] - 1 = 0
         THEN IF res[i] = E_OK
              THEN [timer |-> [st.timer EXCEPT ![i] =
                                 IPduConfigs[i].txConfig.CycleTime],
                    buf |-> [st.buf EXCEPT ![i] =
                               comTxClearUpdateBit(IPduConfigs[i], @)],
                    calls |-> Append(st.calls,
                                     Call("PduR_ComTransmit", i, res[i]))]
              ELSE [timer |-> [st.timer EXCEPT ![i] = 1],
                    buf |-> st.buf,
                    calls |-> Append(st.calls,
                                     Call("PduR_ComTransmit", i, res[i]))]
         ELSE [st EXCEPT !.timer[i] = @ - 1]
    ELSE st

\* Faulty variant of MainTxLoop: the I-PDUs are visited from the last to the
\* first.
RECURSIVE MainTxLoop_Descending(_, _, _)
MainTxLoop_Descending(i, st, res) ==
    IF i >= numOfIPdus THEN st
    ELSE MainTxStep(i, MainTxLoop_Descending(i + 1, st, res), res)

\* The loop of Com_MainFunctionTx from I-PDU i on.
RECURSIVE MainTxLoop(_, _, _)
MainTxLoop(i, st, res) ==
    IF i >= numOfIPdus THEN st
    ELSE MainTxLoop(i + 1, MainTxStep(i, st, res), res)

\* What PduR_ComTransmit may return to one main function call, per I-PDU.
TxResults == [{p \in PduIds : HasTx(p)} -> Results]

Com_MainFunctionRx ==
    /\ fault = "none"
    /\ LET st == MainRxLoop(0, [timer |-> timer, calls |-> <<>>])
       IN  /\ timer' = st.timer
           /\ Obs(OpRec("Com_MainFunctionRx", 0, 0), "void", st.calls, NoOut)
    /\ UNCHANGED <<cfg, GroupStatus, buf, initData, fault>>

Com_MainFunctionTx(res) ==
    /\ fault = "none"
    /\ LET st == MainTxLoop(0, [timer |-> timer, buf |-> buf,
                                calls |-> <<>>], res)
       IN  /\ timer' = st.timer
           /\ buf' = st.buf
           /\ Obs(OpRec("Com_MainFunctionTx", 0, 0), "void", st.calls, NoOut)
    /\ UNCHANGED <<cfg, GroupStatus, initData, fault>>

\* Faulty variant of Com_MainFunction: Com_MainFunctionTx runs first.
Com_MainFunction_TxFirst(res) ==
    /\ fault = "none"
    /\ LET tx == MainTxLoop(0, [timer |-> timer, buf |-> buf,
                                calls |-> <<>>], res)
           st == MainRxLoop(0, [timer |-> tx.timer, calls |-> tx.calls])
       IN  /\ timer' = st.timer
           /\ buf' = tx.buf
           /\ Obs(OpRec("Com_MainFunction", 0, 0), "void", st.calls, NoOut)
    /\ UNCHANGED <<cfg, GroupStatus, initData, fault>>

Com_MainFunction(res) ==
    /\ fault = "none"
    /\ LET rx == MainRxLoop(0, [timer |-> timer, calls |-> <<>>])
           st == MainTxLoop(0, [timer |-> rx.timer, buf |-> buf,
                                calls |-> rx.calls], res)
       IN  /\ timer' = st.timer
           /\ buf' = st.buf
           /\ Obs(OpRec("Com_MainFunction", 0, 0), "void", st.calls, NoOut)
    /\ UNCHANGED <<cfg, GroupStatus, initData, fault>>

(***************************************************************************)
(* The program: any API call, with any argument, in any order.             *)
(***************************************************************************)
Init_ == Com_Init /\ UNCHANGED histVars
IpduGroupStart ==
    \E g \in GroupIdArgs, initialize \in BOOLEAN :
        Com_IpduGroupStart(g, initialize) /\ UNCHANGED histVars
IpduGroupStop ==
    \E g \in GroupIdArgs : Com_IpduGroupStop(g) /\ UNCHANGED histVars
ReceiveSignal ==
    \E s \in SignalIdArgs, ptr \in DstPtrs :
        Com_ReceiveSignal(s, ptr) /\ UNCHANGED histVars
SendSignal ==
    \E s \in SignalIdArgs, ptr \in SrcPtrs :
        Com_SendSignal(s, ptr) /\ UNCHANGED histVars
SendSignalGroup ==
    \E s \in SignalIdArgs : Com_SendSignalGroup(s) /\ UNCHANGED histVars
ReceiveSignalGroup ==
    \E s \in SignalIdArgs : Com_ReceiveSignalGroup(s) /\ UNCHANGED histVars
TriggerIPDUSend ==
    \E p \in PduIdArgs, r \in Results :
        Com_TriggerIPDUSend(p, r) /\ UNCHANGED histVars
RxIndication ==
    \E p \in PduIdArgs, f \in Frames :
        Com_RxIndication(p, f) /\ UNCHANGED histVars
TriggerTransmit ==
    \E p \in PduIdArgs, c \in Capacities :
        Com_TriggerTransmit(p, c) /\ UNCHANGED histVars
TxConfirmation ==
    \E p \in PduIdArgs, r \in Results :
        Com_TxConfirmation(p, r) /\ UNCHANGED histVars
MainFunctionRx == Com_MainFunctionRx /\ UNCHANGED histVars
MainFunctionTx ==
    \E res \in TxResults : Com_MainFunctionTx(res) /\ UNCHANGED histVars
MainFunction ==
    \E res \in TxResults : Com_MainFunction(res) /\ UNCHANGED histVars

Next ==
    \/ Init_
    \/ IpduGroupStart
    \/ IpduGroupStop
    \/ ReceiveSignal
    \/ SendSignal
    \/ SendSignalGroup
    \/ ReceiveSignalGroup
    \/ TriggerIPDUSend
    \/ RxIndication
    \/ TriggerTransmit
    \/ TxConfirmation
    \/ MainFunctionRx
    \/ MainFunctionTx
    \/ MainFunction

Spec == Init /\ [][Next]_vars

(***************************************************************************)
(* Timing scenarios: the same functions, with the ticks counted.  A tick   *)
(* is one call of Com_MainFunction; `hist` records, per I-PDU, when it was *)
(* transmitted and when it timed out, for as long as it is `steady`.       *)
(***************************************************************************)
\* Number of calls of `fn` for I-PDU p among a call list.
CallCount(cs, fn, p) ==
    Cardinality({k \in 1 .. Len(cs) : cs[k].fn = fn /\ cs[k].pdu = p})

\* The result PduR_ComTransmit returned for I-PDU p in a call list.
TxResultIn(cs, p) ==
    cs[CHOOSE k \in 1 .. Len(cs) :
          cs[k].fn = "PduR_ComTransmit" /\ cs[k].pdu = p].ret

Unsteady == HistInit

HistAfterTick(cs, tick) ==
    [p \in PduIds |->
        IF ~hist[p].steady THEN hist[p]
        ELSE LET h == hist[p]
                 sent == CallCount(cs, "PduR_ComTransmit", p) > 0
                 tout == CallCount(cs, "RxTOut", p)
             IN  [steady |-> TRUE,
                  last |-> IF sent THEN tick ELSE h.last,
                  ok |-> IF sent THEN TxResultIn(cs, p) = E_OK ELSE h.ok,
                  prev |-> IF sent THEN h.last ELSE h.prev,
                  prevOk |-> IF sent THEN h.ok ELSE h.prevOk,
                  failed |-> h.failed
                             \/ (sent /\ TxResultIn(cs, p) # E_OK),
                  touts |-> h.touts + tout,
                  toutAt |-> IF tout > 0 THEN tick ELSE h.toutAt]]

T_Tick ==
    \E res \in TxResults :
        /\ now < MaxTick
        /\ Com_MainFunction(res)
        /\ now' = now + 1
        /\ hist' = HistAfterTick(calls', now + 1)
        /\ UNCHANGED <<codec, canVars>>

\* Groups are started at tick 0 only.
T_Start ==
    \E g \in GroupIdArgs, initialize \in BOOLEAN :
        /\ now = 0
        /\ Com_IpduGroupStart(g, initialize)
        /\ hist' = [p \in PduIds |->
                     IF g \in IPduConfigs[p].GroupRefMask /\ g < numOfGroups
                     THEN [HistInit EXCEPT !.steady = TRUE]
                     ELSE hist[p]]
        /\ UNCHANGED <<now, codec, canVars>>

\* An I-PDU that a stop disables is no longer steady.
T_Stop ==
    \E g \in GroupIdArgs :
        /\ Com_IpduGroupStop(g)
        /\ hist' = [p \in PduIds |->
                     IF (GroupStatus' \cap IPduConfigs[p].GroupRefMask) = {}
                     THEN Unsteady ELSE hist[p]]
        /\ UNCHANGED <<now, codec, canVars>>

\* Only frames that are not accepted arrive: too short, or for no I-PDU.
T_RxShort ==
    \E p \in PduIdArgs, f \in Frames :
        /\ f.SduLength <= 1
        /\ p < numOfIPdus => f.SduLength < IPduConfigs[p].length
        /\ Com_RxIndication(p, f)
        /\ UNCHANGED histVars

NextTiming ==
    \/ T_Start
    \/ T_Stop
    \/ T_Tick
    \/ T_RxShort

SpecTiming == Init /\ [][NextTiming]_vars

(***************************************************************************)
(* Short-frame scenarios: each I-PDU group is started at most once and     *)
(* never stopped, only frames that are not accepted arrive, and the ticks  *)
(* keep coming (Com_MainFunction is called periodically).                  *)
(***************************************************************************)
S_Start ==
    \E g \in GroupIdArgs, initialize \in BOOLEAN :
        /\ g \notin GroupStatus
        /\ Com_IpduGroupStart(g, initialize)
        /\ UNCHANGED histVars

S_Tick == \E res \in TxResults : Com_MainFunction(res) /\ UNCHANGED histVars

S_RxShort ==
    \E p \in PduIdArgs, f \in Frames :
        /\ p < numOfIPdus => f.SduLength < IPduConfigs[p].length
        /\ Com_RxIndication(p, f)
        /\ UNCHANGED histVars

NextShortFrames ==
    \/ S_Start
    \/ S_Tick
    \/ S_RxShort

SpecShortFrames == Init /\ [][NextShortFrames]_vars /\ WF_vars(S_Tick)

(***************************************************************************)
(* TX timer scenarios: any sequence of Com_IpduGroupStart,                 *)
(* Com_IpduGroupStop, Com_MainFunctionTx, Com_TriggerIPDUSend and          *)
(* Com_TxConfirmation, with any arguments and any PduR_ComTransmit         *)
(* results, under the TXTIMER configuration.                               *)
(***************************************************************************)
InitTxTimer == InitUnder(TxTimerConfigs) /\ codec = Idle /\ NoCan

NextTxTimer ==
    \/ IpduGroupStart
    \/ IpduGroupStop
    \/ MainFunctionTx
    \/ TriggerIPDUSend
    \/ TxConfirmation

SpecTxTimer == InitTxTimer /\ [][NextTxTimer]_vars

(***************************************************************************)
(* Packer scenarios: comSendSignal and then comReceiveSignal applied to    *)
(* one signal over a buffer, for signals, source objects and buffer        *)
(* contents drawn from bounded sets.  The fields lie in all bytes but the  *)
(* last, whose top bit is the update bit of the signals that have one.     *)
(***************************************************************************)
\* Bytes of the buffer.
PackerBufLen == 6
FieldBits == 8 * (PackerBufLen - 1)
PackerUpdateBit == 8 * PackerBufLen - 1

SignedTypes == {"COM_SINT8", "COM_SINT16", "COM_SINT32"}

\* sizeof the C type of a scalar signal.
NativeBytes(type) ==
    CASE type \in {"COM_SINT8", "COM_UINT8"} -> 1
      [] type \in {"COM_SINT16", "COM_UINT16"} -> 2
      [] OTHER -> 4

\* Source objects of a signed signal of n bits: the n-bit two's-complement
\* value with sign bit `sign` and the other bits given by `fill`, as an
\* object of the signal's C type (sign-extended to its width).
SignedSrc(type, n, sign, fill) ==
    StoreBytes([i \in WordBits |->
                  IF i >= 8 * NativeBytes(type) THEN 0
                  ELSE IF i >= n - 1 THEN sign
                  ELSE CASE fill = "zeros" -> 0
                         [] fill = "ones" -> 1
                         [] OTHER -> (i + 1) % 2], 4)

\* 0, the largest, the smallest, -1 and a negative value of mixed bits.
SignedSrcs(type, n) ==
    {SignedSrc(type, n, 0, "zeros"), SignedSrc(type, n, 0, "ones"),
     SignedSrc(type, n, 1, "zeros"), SignedSrc(type, n, 1, "ones"),
     SignedSrc(type, n, 1, "mixed")}

\* Source objects of an unsigned signal, bits above the field included.
UnsignedSrcs ==
    {Arr(<<0, 0, 0, 0>>), Arr(<<255, 255, 255, 255>>),
     Arr(<<165, 90, 165, 90>>), Arr(<<188, 10, 0, 0>>)}

SrcsOf(type, n) ==
    IF type \in SignedTypes THEN SignedSrcs(type, n) ELSE UnsignedSrcs

\* Buffer contents before the send: all bits clear, all bits set.
Befores ==
    {[i \in 0 .. (PackerBufLen - 1) |-> 0],
     [i \in 0 .. (PackerBufLen - 1) |-> 255]}

UpdateBits == {COM_UPDATE_BIT_NOT_USED, PackerUpdateBit}

\* The start positions at which a field of `size` bits lies in the field
\* bytes.
LittleStarts(size) == 0 .. (FieldBits - size)
BigStarts(size) ==
    {st \in 0 .. (FieldBits - 1) : BigEndianPos(st, size - 1) < FieldBits}
StartsOf(endian, size) ==
    IF endian = "LITTLE" THEN LittleStarts(size) ELSE BigStarts(size)

\* A byte-aligned and a straddling start.
ScalarStarts(endian) == IF endian = "LITTLE" THEN {0, 5} ELSE {7, 2}

PackerSignal(type, endian, pos, size, ub) ==
    Signal(0, type, endian, pos, size, ub, <<>>)

PackerInput(signal, src, before) ==
    [signal |-> signal, src |-> src, before |-> before]

\* Every scalar type, both endiannesses, every size up to the type's width.
ScalarInputs ==
    UNION {
        {PackerInput(PackerSignal(x[1], x[2], st, x[3], ub), m, b) :
            st \in ScalarStarts(x[2]), ub \in UpdateBits,
            m \in SrcsOf(x[1], x[3]), b \in Befores} :
        x \in {y \in ScalarTypes \X {"BIG", "LITTLE"} \X (1 .. 32) :
                 y[3] <= 8 * NativeBytes(y[1])}}

\* 32-bit fields of every size at every start.
FieldInputs ==
    UNION {
        {PackerInput(PackerSignal("COM_UINT32", x[1], st, x[2],
                                  COM_UPDATE_BIT_NOT_USED), m, b) :
            st \in StartsOf(x[1], x[2]), m \in UnsignedSrcs, b \in Befores} :
        x \in {"BIG", "LITTLE"} \X (1 .. 32)}

\* Byte arrays: COM_UINT8N signals and OPAQUE ones, of 1 to 3 bytes, at the
\* first three byte positions.
OpaqueInputs ==
    {PackerInput(PackerSignal(x[1], x[2], 8 * pos, 8 * n, ub), m, b) :
        x \in {<<"COM_UINT8N", "OPAQUE">>, <<"COM_UINT8N", "LITTLE">>,
               <<"COM_UINT32", "OPAQUE">>},
        pos \in 0 .. 2, n \in 1 .. 3, ub \in UpdateBits,
        m \in {Arr(<<165, 90, 195, 60>>)}, b \in Befores}

PackerInputs == ScalarInputs \cup FieldInputs \cup OpaqueInputs

Fresh(i) ==
    [stage |-> "fresh", signal |-> i.signal, src |-> i.src,
     before |-> i.before, ptr |-> i.before, sendRet |-> "none",
     recv |-> [ret |-> "none", out |-> NoOut]]

InitPacker ==
    /\ InitUnder({"SIGMISC"})
    /\ codec \in {Fresh(i) : i \in PackerInputs}
    /\ NoCan

P_Send ==
    /\ codec.stage = "fresh"
    /\ LET r == comSendSignal(codec.signal, codec.ptr, codec.src)
       IN  codec' = [codec EXCEPT !.stage = "sent", !.ptr = r.ptr,
                                  !.sendRet = r.ret]
    /\ UNCHANGED <<progVars, obsVars, now, hist, canVars>>

P_Receive ==
    /\ codec.stage = "sent"
    /\ LET r == comReceiveSignal(codec.signal, codec.ptr)
       IN  codec' = [codec EXCEPT !.stage = "received", !.ptr = r.ptr,
                                  !.recv = [ret |-> r.ret, out |-> r.out]]
    /\ UNCHANGED <<progVars, obsVars, now, hist, canVars>>

NextPacker ==
    \/ P_Send
    \/ P_Receive

SpecPacker == InitPacker /\ [][NextPacker]_vars

(***************************************************************************)
(* simulator_can_v2.c: socket_probe and socket_close called from           *)
(* concurrent threads, and the rx_daemon threads socket_probe creates.     *)
(* A step is one critical section, or one access made outside the mutex;   *)
(* the final critical section of socket_probe, which reads and writes      *)
(* socketH.terminated while socket_close and rx_daemon access it without   *)
(* the mutex, is one step per access.  The Com module is not involved.     *)
(***************************************************************************)
Callers == {1, 2}
CanPorts == {0, 1}
\* Calls one thread makes.
MaxCalls == 2

\* A handle is identified by the order of its malloc; NULL has id 0.  The
\* address malloc returned for it is threads.addr[id]: a pointer to a handle
\* that has been freed equals a pointer to a later handle that malloc has
\* placed at the same address.
NullHandle == [id |-> 0, port |-> 0]
NewHandle(id, port) == [id |-> id, port |-> port]

\* The static initialiser of socketH; head and rx_thread are zeroed.
\* mutex: 0 when free, otherwise the caller that holds it.
SocketHInit ==
    [initialized |-> FALSE, terminated |-> FALSE, head |-> <<>>,
     mutex |-> 0, rx_thread |-> 0]

\* caller[t]: where thread t is in the call it is making and its locals.
\* daemon[d]: where the d-th thread created by pthread_create is:
\*            "test" (the loop condition), "poll" (the loop body),
\*            "exited", "joined".
\*            tid is the thread a caller in pthread_join waits for.
\* made: handles allocated so far.  addr[id]: the address of handle id.
\* freed: the addresses that are free again.
\* crash: "none", or how the process ended.
ThreadsInit ==
    [caller |-> [t \in Callers |->
                   [pc |-> "idle", port |-> 0, handle |-> NullHandle,
                    rv |-> TRUE, calls |-> 0, tid |-> 0]],
     daemon |-> <<>>, made |-> 0, addr |-> <<>>, freed |-> {},
     crash |-> "none"]

InitCan ==
    /\ InitUnder({"SCHED1"})
    /\ codec = Idle
    /\ socketH = SocketHInit
    /\ threads = ThreadsInit

ComUnused == UNCHANGED <<progVars, obsVars, now, hist, codec>>

At(t, pc) == threads.crash = "none" /\ threads.caller[t].pc = pc
Goto(t, pc) == [threads EXCEPT !.caller[t].pc = pc]
Crash(how) == [threads EXCEPT !.crash = how]

\* The first handle of the list with this port, or NULL.
getHandle(port) ==
    LET hits == {k \in 1 .. Len(socketH.head) : socketH.head[k].port = port}
    IN  IF hits = {} THEN NullHandle
        ELSE socketH.head[CHOOSE k \in hits : \A j \in hits : k <= j]

\* The address a caller's handle pointer holds.
AddrOf(handle) == threads.addr[handle.id]

\* The elements of the list that lie at the address `handle` points to: the
\* handle itself, or one allocated at its address after it was freed.
AtAddress(list, handle) ==
    {k \in 1 .. Len(list) : AddrOf(list[k]) = AddrOf(handle)}

\* STAILQ_REMOVE(&socketH.head, handle, ...): the element whose address is
\* `handle` is unlinked.
Removed(list, handle) ==
    SelectSeq(list, LAMBDA h : AddrOf(h) # AddrOf(handle))

\* What malloc may return when it succeeds: an address that was freed, or a
\* new one.
Addresses == 1 .. (MaxCalls * Cardinality(Callers))
MallocChoices ==
    threads.freed
        \cup {Cardinality({threads.addr[i] : i \in DOMAIN threads.addr}) + 1}

\* A thread calls socket_probe(busid, port, baudrate, rx_notification).
socket_probe(t, port) ==
    /\ At(t, "idle")
    /\ threads.caller[t].calls < MaxCalls
    /\ threads' = [threads EXCEPT
                     !.caller[t] = [pc |-> "probe_init", port |-> port,
                                    handle |-> NullHandle, rv |-> TRUE,
                                    calls |-> @.calls + 1, tid |-> 0]]
    /\ UNCHANGED socketH
    /\ ComUnused

\* First critical section: the list is initialised once.
socket_probe_init(t) ==
    /\ At(t, "probe_init")
    /\ socketH.mutex = 0
    /\ socketH' = IF socketH.initialized THEN socketH
                  ELSE [socketH EXCEPT !.head = <<>>, !.initialized = TRUE,
                                       !.terminated = TRUE]
    /\ threads' = Goto(t, "probe_getHandle")
    /\ ComUnused

\* handle = getHandle(port); a port that is on-line is not probed again.
socket_probe_getHandle(t) ==
    /\ At(t, "probe_getHandle")
    /\ socketH.mutex = 0
    /\ LET handle == getHandle(threads.caller[t].port)
       IN  threads' = IF handle # NullHandle
                      THEN [threads EXCEPT !.caller[t].pc = "probe_lock",
                                           !.caller[t].rv = FALSE]
                      ELSE Goto(t, "probe_open")
    /\ UNCHANGED socketH
    /\ ComUnused

\* The two sockets are created and bound, or not (`ok`, decided by TcpIp).
socket_probe_open(t, ok) ==
    /\ At(t, "probe_open")
    /\ threads' = IF ok THEN Goto(t, "probe_malloc")
                  ELSE [threads EXCEPT !.caller[t].pc = "probe_lock",
                                       !.caller[t].rv = FALSE]
    /\ UNCHANGED socketH
    /\ ComUnused

\* handle = malloc(...); assert(handle): malloc returns address a, where 0 is
\* NULL.  On NULL the assertion ends the process; otherwise the handle is
\* filled in.  No mutex is held.
socket_probe_malloc(t, a) ==
    /\ At(t, "probe_malloc")
    /\ a \in {0} \cup MallocChoices
    /\ threads' =
          IF a = 0
          THEN Crash("assert(handle)")
          ELSE [threads EXCEPT
                  !.made = @ + 1,
                  !.addr = Append(@, a),
                  !.freed = @ \ {a},
                  !.caller[t].handle =
                      NewHandle(threads.made + 1, threads.caller[t].port),
                  !.caller[t].pc = "probe_insert"]
    /\ UNCHANGED socketH
    /\ ComUnused

\* STAILQ_INSERT_TAIL under the mutex.
socket_probe_insert(t) ==
    /\ At(t, "probe_insert")
    /\ socketH.mutex = 0
    /\ socketH' = [socketH EXCEPT
                     !.head = Append(@, threads.caller[t].handle)]
    /\ threads' = Goto(t, "probe_lock")
    /\ ComUnused

\* The last critical section: pthread_mutex_lock.
socket_probe_lock(t) ==
    /\ At(t, "probe_lock")
    /\ socketH.mutex = 0
    /\ socketH' = [socketH EXCEPT !.mutex = t]
    /\ threads' = Goto(t, "probe_test")
    /\ ComUnused

\* if ((true == socketH.terminated) && (false == STAILQ_EMPTY(&socketH.head)))
socket_probe_test(t) ==
    /\ At(t, "probe_test")
    /\ threads' = IF socketH.terminated /\ socketH.head # <<>>
                  THEN Goto(t, "probe_create")
                  ELSE Goto(t, "probe_unlock")
    /\ UNCHANGED socketH
    /\ ComUnused

\* pthread_create(&socketH.rx_thread, NULL, rx_daemon, NULL): the new thread
\* is at the head of rx_daemon; if no thread can be created (`ok` false),
\* assert(0) ends the process.
socket_probe_create(t, ok) ==
    /\ At(t, "probe_create")
    /\ IF ok
       THEN /\ socketH' = [socketH EXCEPT
                             !.rx_thread = Len(threads.daemon) + 1]
            /\ threads' = [threads EXCEPT
                             !.daemon = Append(@, "test"),
                             !.caller[t].pc = "probe_started"]
       ELSE /\ threads' = Crash("assert(0)")
            /\ UNCHANGED socketH
    /\ ComUnused

\* socketH.terminated = false, after pthread_create has returned.
socket_probe_started(t) ==
    /\ At(t, "probe_started")
    /\ socketH' = [socketH EXCEPT !.terminated = FALSE]
    /\ threads' = Goto(t, "probe_unlock")
    /\ ComUnused

\* pthread_mutex_unlock; return rv.
socket_probe_unlock(t) ==
    /\ At(t, "probe_unlock")
    /\ socketH' = [socketH EXCEPT !.mutex = 0]
    /\ threads' = Goto(t, "idle")
    /\ ComUnused

\* A thread calls socket_close(port).
socket_close(t, port) ==
    /\ At(t, "idle")
    /\ threads.caller[t].calls < MaxCalls
    /\ threads' = [threads EXCEPT
                     !.caller[t] = [pc |-> "close_getHandle", port |-> port,
                                    handle |-> NullHandle, rv |-> TRUE,
                                    calls |-> @.calls + 1, tid |-> 0]]
    /\ UNCHANGED socketH
    /\ ComUnused

\* handle = getHandle(port); nothing is done for a port that is not on-line.
socket_close_getHandle(t) ==
    /\ At(t, "close_getHandle")
    /\ socketH.mutex = 0
    /\ LET handle == getHandle(threads.caller[t].port)
       IN  threads' = IF handle = NullHandle
                      THEN Goto(t, "idle")
                      ELSE [threads EXCEPT !.caller[t].handle = handle,
                                           !.caller[t].pc = "close_remove"]
    /\ UNCHANGED socketH
    /\ ComUnused

\* STAILQ_REMOVE under the mutex.  `handle` may dangle: another thread may
\* have removed and freed it since getHandle.  The macro compares addresses:
\* if a later handle lies at that address it is the one unlinked; if no
\* element of the list has that address the walk runs off the end of the list
\* (a null pointer is dereferenced).
socket_close_remove(t) ==
    /\ At(t, "close_remove")
    /\ socketH.mutex = 0
    /\ IF AtAddress(socketH.head, threads.caller[t].handle) # {}
       THEN /\ socketH' = [socketH EXCEPT
                             !.head = Removed(@, threads.caller[t].handle)]
            /\ threads' = Goto(t, "close_free")
       ELSE /\ threads' = Crash("STAILQ_REMOVE of a freed handle")
            /\ UNCHANGED socketH
    /\ ComUnused

\* The sockets are closed and free(handle) releases the block at the
\* handle's address (the block of the element just unlinked).
socket_close_free(t) ==
    /\ At(t, "close_free")
    /\ threads' = [threads EXCEPT
                     !.freed = @ \cup {AddrOf(threads.caller[t].handle)},
                     !.caller[t].pc = "close_empty"]
    /\ UNCHANGED socketH
    /\ ComUnused

\* if (true == STAILQ_EMPTY(&socketH.head)), read without the mutex.
socket_close_empty(t) ==
    /\ At(t, "close_empty")
    /\ threads' = IF socketH.head = <<>>
                  THEN Goto(t, "close_terminate")
                  ELSE Goto(t, "idle")
    /\ UNCHANGED socketH
    /\ ComUnused

\* socketH.terminated = true, written without the mutex.
socket_close_terminate(t) ==
    /\ At(t, "close_terminate")
    /\ socketH' = [socketH EXCEPT !.terminated = TRUE]
    /\ threads' = Goto(t, "close_join")
    /\ ComUnused

\* The thread pthread_join is called for is no thread: none was ever created
\* (rx_thread is zero), or it has been joined already.
Unjoinable(tid) ==
    \/ tid = 0
    \/ tid # 0 /\ threads.daemon[tid] = "joined"

\* Another caller is waiting in pthread_join for this thread.
BeingJoined(tid) ==
    \E u \in Callers : /\ threads.caller[u].pc = "close_joining"
                       /\ threads.caller[u].tid = tid

\* pthread_join(socketH.rx_thread, NULL) is called: rx_thread is read, without
\* the mutex.  For a joinable thread the caller waits.  The other calls are
\* undefined: for no thread, the call fails at once (socket_close ignores
\* the error) or the process ends; for a thread another caller is joining,
\* the caller may also wait, and then one of the two callers at most returns.
socket_close_join(t, outcome) ==
    /\ At(t, "close_join")
    /\ LET tid == socketH.rx_thread
       IN  /\ outcome \in (IF Unjoinable(tid) THEN {"fails", "crash"}
                           ELSE IF BeingJoined(tid) THEN {"waits", "fails", "crash"}
                           ELSE {"waits"})
           /\ threads' =
                 IF outcome = "waits"
                 THEN [threads EXCEPT !.caller[t].tid = tid,
                                      !.caller[t].pc = "close_joining"]
                 ELSE IF outcome = "fails" THEN Goto(t, "idle")
                 ELSE Crash("pthread_join of no joinable thread")
    /\ UNCHANGED socketH
    /\ ComUnused

\* pthread_join returns once the thread it was called for has exited.
socket_close_joined(t) ==
    /\ At(t, "close_joining")
    /\ threads.daemon[threads.caller[t].tid] = "exited"
    /\ threads' = [threads EXCEPT
                     !.daemon[threads.caller[t].tid] = "joined",
                     !.caller[t].pc = "idle"]
    /\ UNCHANGED socketH
    /\ ComUnused

\* rx_daemon: while (false == socketH.terminated), read without the mutex.
rx_daemon_test(d) ==
    /\ threads.crash = "none"
    /\ threads.daemon[d] = "test"
    /\ threads' = [threads EXCEPT !.daemon[d] =
                     IF socketH.terminated THEN "exited" ELSE "poll"]
    /\ UNCHANGED socketH
    /\ ComUnused

\* rx_daemon: the loop body polls every handle of the list under the mutex,
\* then sleeps.
rx_daemon_poll(d) ==
    /\ threads.crash = "none"
    /\ threads.daemon[d] = "poll"
    /\ socketH.mutex = 0
    /\ threads' = [threads EXCEPT !.daemon[d] = "test"]
    /\ UNCHANGED socketH
    /\ ComUnused

Daemons == 1 .. Len(threads.daemon)

Probe == \E t \in Callers, port \in CanPorts : socket_probe(t, port)
ProbeInit == \E t \in Callers : socket_probe_init(t)
ProbeGetHandle == \E t \in Callers : socket_probe_getHandle(t)
ProbeOpen == \E t \in Callers, ok \in BOOLEAN : socket_probe_open(t, ok)
ProbeMalloc ==
    \E t \in Callers, a \in {0} \cup Addresses : socket_probe_malloc(t, a)
ProbeInsert == \E t \in Callers : socket_probe_insert(t)
ProbeLock == \E t \in Callers : socket_probe_lock(t)
ProbeTest == \E t \in Callers : socket_probe_test(t)
ProbeCreate == \E t \in Callers, ok \in BOOLEAN : socket_probe_create(t, ok)
ProbeStarted == \E t \in Callers : socket_probe_started(t)
ProbeUnlock == \E t \in Callers : socket_probe_unlock(t)
Close == \E t \in Callers, port \in CanPorts : socket_close(t, port)
CloseGetHandle == \E t \in Callers : socket_close_getHandle(t)
CloseRemove == \E t \in Callers : socket_close_remove(t)
CloseFree == \E t \in Callers : socket_close_free(t)
CloseEmpty == \E t \in Callers : socket_close_empty(t)
CloseTerminate == \E t \in Callers : socket_close_terminate(t)
CloseJoin ==
    \E t \in Callers, outcome \in {"waits", "fails", "crash"} : socket_close_join(t, outcome)
CloseJoined == \E t \in Callers : socket_close_joined(t)
DaemonTest == \E d \in Daemons : rx_daemon_test(d)
DaemonPoll == \E d \in Daemons : rx_daemon_poll(d)

NextCan ==
    \/ Probe
    \/ ProbeInit
    \/ ProbeGetHandle
    \/ ProbeOpen
    \/ ProbeMalloc
    \/ ProbeInsert
    \/ ProbeLock
    \/ ProbeTest
    \/ ProbeCreate
    \/ ProbeStarted
    \/ ProbeUnlock
    \/ Close
    \/ CloseGetHandle
    \/ CloseRemove
    \/ CloseFree
    \/ CloseEmpty
    \/ CloseTerminate
    \/ CloseJoin
    \/ CloseJoined
    \/ DaemonTest
    \/ DaemonPoll

SpecCan == InitCan /\ [][NextCan]_vars

(***************************************************************************)
(* Properties.                                                             *)
(***************************************************************************)
MainTxOps == {"Com_MainFunctionTx", "Com_MainFunction"}

\* The I-PDUs PduR_ComTransmit was called for by the last API call.
Transmitted(cs) ==
    {cs[k].pdu : k \in {j \in 1 .. Len(cs) : cs[j].fn = "PduR_ComTransmit"}}

\* C1 (group gating): a main function never calls PduR_ComTransmit for an
\* I-PDU whose GroupRefMask does not intersect GroupStatus, and
\* Com_RxIndication leaves the buffer of such an I-PDU as it was.
GroupGatingStep ==
    /\ op'.name \in MainTxOps =>
          \A p \in Transmitted(calls') : Active(p)
    /\ op'.name = "Com_RxIndication" =>
          \A p \in PduIds : ~Active(p) => buf'[p] = buf[p]
C1_GroupGating == [][GroupGatingStep]_vars

\* A tick has just transmitted one I-PDU and skipped a disabled TX I-PDU
\* whose timer was about to expire.
C1_Witness ==
    /\ op.name \in MainTxOps
    /\ Transmitted(calls) # {}
    /\ \E p \in PduIds : HasTx(p) /\ ~Active(p) /\ timer[p] = 1

\* The first tick on which a started TX I-PDU is transmitted, and whether
\* tick t is one of its cycle's ticks.
FirstTick(p) ==
    IF IPduConfigs[p].txConfig.FirstTime > 0
    THEN IPduConfigs[p].txConfig.FirstTime
    ELSE IPduConfigs[p].txConfig.CycleTime
CycleDue(p, t) ==
    /\ t >= FirstTick(p)
    /\ (t - FirstTick(p)) % IPduConfigs[p].txConfig.CycleTime = 0

\* C2 (cycle honesty): a TX I-PDU with CycleTime C > 0 started at tick 0
\* that stays enabled and whose transmits all succeed is transmitted exactly
\* once on tick F (FirstTime, or C when FirstTime is 0), exactly once every
\* C ticks after it, and on no other tick.
C2_CycleHonesty ==
    \A p \in PduIds :
        (HasTx(p) /\ hist[p].steady /\ ~hist[p].failed) =>
            /\ op.name = "Com_MainFunction" =>
                  CallCount(calls, "PduR_ComTransmit", p)
                      = IF CycleDue(p, now) THEN 1 ELSE 0
            /\ hist[p].last =
                  IF now < FirstTick(p) THEN -1
                  ELSE now - ((now - FirstTick(p))
                                  % IPduConfigs[p].txConfig.CycleTime)

\* CycleTime 5, FirstTime 2: tick 12 has just transmitted, after tick 7.
C2_Witness ==
    /\ cfg = "SCHED1"
    /\ op.name = "Com_MainFunction"
    /\ now = 12
    /\ hist[1].steady /\ ~hist[1].failed
    /\ hist[1].last = 12 /\ hist[1].prev = 7
    /\ Transmitted(calls) = {1}

\* C3 (retry policy): for a TX I-PDU that stays enabled, a failed transmit
\* on tick t is followed by exactly one attempt on tick t + 1 (the timer is
\* 1 in between), and a successful one by the next attempt CycleTime ticks
\* later and none before.
C3_RetryPolicy ==
    \A p \in PduIds :
        (HasTx(p) /\ hist[p].steady) =>
            LET h == hist[p]
                C == IPduConfigs[p].txConfig.CycleTime
            IN  /\ CallCount(calls, "PduR_ComTransmit", p) <= 1
                /\ (h.last # -1 /\ ~h.ok) => (now = h.last /\ timer[p] = 1)
                /\ (h.prev # -1 /\ ~h.prevOk) => h.last = h.prev + 1
                /\ (h.last # -1 /\ h.ok) => timer[p] = h.last + C - now
                /\ (h.prev # -1 /\ h.prevOk) => h.last = h.prev + C

\* CycleTime 5, FirstTime 2: the transmit of tick 2 failed, the one of tick
\* 3 succeeded, and the next is due on tick 8.
C3_Witness ==
    /\ cfg = "SCHED1"
    /\ hist[1].steady
    /\ hist[1].prev = 2 /\ ~hist[1].prevOk
    /\ hist[1].last = 3 /\ hist[1].ok
    /\ now = 7 /\ timer[1] = 1

\* The value Com_IpduGroupStart arms an RX timer with.
RxArm(p) ==
    IF IPduConfigs[p].rxConfig.FirstTimeout > 0
    THEN IPduConfigs[p].rxConfig.FirstTimeout
    ELSE IPduConfigs[p].rxConfig.Timeout

\* C4 (RX timeout once per expiry): for an RX I-PDU started at tick 0 that
\* stays enabled and gets no accepted frame, RxTOut is called exactly once,
\* on the tick the timer armed with FirstTimeout (Timeout when FirstTimeout
\* is 0) reaches 0; from then on the timer stays 0 and RxTOut is not called.
C4_RxTimeoutOnce ==
    \A p \in PduIds :
        (HasRx(p) /\ hist[p].steady) =>
            /\ timer[p] = IF now < RxArm(p) THEN RxArm(p) - now ELSE 0
            /\ IPduConfigs[p].rxConfig.RxTOut =>
                  /\ hist[p].touts = IF now >= RxArm(p) THEN 1 ELSE 0
                  /\ hist[p].toutAt = IF now >= RxArm(p) THEN RxArm(p) ELSE -1
                  /\ op.name = "Com_MainFunction" =>
                        CallCount(calls, "RxTOut", p)
                            = IF now = RxArm(p) THEN 1 ELSE 0

\* Timeout 4, FirstTimeout 1: timed out on tick 1, and five ticks later
\* still only once.
C4_Witness ==
    /\ cfg = "SCHED1"
    /\ hist[0].steady
    /\ now = 6
    /\ hist[0].touts = 1 /\ hist[0].toutAt = 1
    /\ timer[0] = 0

\* Whether signal s has an update bit, and whether it is set.
HasUpdateBit(s) == SignalConfigs[s].UpdateBit # COM_UPDATE_BIT_NOT_USED
UpdateBitSet(b, s) ==
    Std_BitGet(b[SignalConfigs[s].pdu], SignalConfigs[s].UpdateBit)

\* A signal Com.c has a case for: a byte array, or a scalar of a known type
\* and endianness.
Supported(s) ==
    \/ SignalConfigs[s].type = "COM_UINT8N"
    \/ SignalConfigs[s].Endianness = "OPAQUE"
    \/ /\ SignalConfigs[s].type \in ScalarTypes
       /\ SignalConfigs[s].Endianness \in {"BIG", "LITTLE"}

\* The three parts of update-bit gating, for every signal with an update
\* bit: after Com_SendSignal the bit is set; Com_ReceiveSignal on a set bit
\* returns E_OK and leaves the bit clear; Com_ReceiveSignal on a clear bit
\* (no write has set it since it was cleared) returns E_NOT_OK and stores
\* nothing.  The three flags tell how far each part reaches: to a
\* Com_SendSignal that traps, to a Com_ReceiveSignal with a null
\* destination, and, for the value returned, to signals of a type or
\* endianness Com.c has no case for (for those the value is E_NOT_OK when
\* the flag is off).
UpdateBitGatingStep(anySend, anyDst, anyKind) ==
    \A s \in {x \in SignalIds : HasUpdateBit(x)} :
        /\ (op'.name = "Com_SendSignal" /\ op'.id = s
            /\ (anySend \/ fault' = "none")) =>
              UpdateBitSet(buf', s)
        /\ (op'.name = "Com_ReceiveSignal" /\ op'.id = s
            /\ (anyDst \/ ~op'.arg.null)
            /\ UpdateBitSet(buf, s)) =>
              /\ ~UpdateBitSet(buf', s)
              /\ ret' = IF anyKind \/ Supported(s) THEN E_OK ELSE E_NOT_OK
        /\ (op'.name = "Com_ReceiveSignal" /\ op'.id = s
            /\ ~UpdateBitSet(buf, s)) =>
              (ret' = E_NOT_OK /\ ~out'.written)

UpdateBitGating_AnySend ==
    [][UpdateBitGatingStep(TRUE, FALSE, FALSE)]_vars
UpdateBitGating_AnyDestination ==
    [][UpdateBitGatingStep(FALSE, TRUE, FALSE)]_vars
UpdateBitGating_AnyKind ==
    [][UpdateBitGatingStep(FALSE, FALSE, TRUE)]_vars

UpdateBitSignals(p) ==
    {IPduConfigs[p].signals[k] : k \in 1 .. Len(IPduConfigs[p].signals)}
        \cap {s \in SignalIds : HasUpdateBit(s)}

\* C6 (update bits at transmission): when a main function transmits a TX
\* I-PDU and PduR_ComTransmit returns E_OK, the update bits of all signals
\* of the I-PDU are clear afterwards; when it returns E_NOT_OK the buffer,
\* update bits included, is as before.
TxUpdateBitStep ==
    op'.name \in MainTxOps =>
        \A k \in 1 .. Len(calls') :
            calls'[k].fn = "PduR_ComTransmit" =>
                LET p == calls'[k].pdu
                IN  IF calls'[k].ret = E_OK
                    THEN \A s \in UpdateBitSignals(p) : ~UpdateBitSet(buf', s)
                    ELSE buf'[p] = buf[p]
C6_TxClearsUpdateBits == [][TxUpdateBitStep]_vars

\* Both signals of the I-PDU were sent (each nibble is 10), the I-PDU was
\* transmitted with E_OK, and both update bits (byte 1) are clear.
C6_Witness ==
    /\ cfg = "SIGTX"
    /\ op.name \in MainTxOps
    /\ calls = <<Call("PduR_ComTransmit", 0, E_OK)>>
    /\ buf[0] = Arr(<<170, 0>>)

SignalOps == {"Com_SendSignal", "Com_ReceiveSignal", "Com_SendSignalGroup",
              "Com_ReceiveSignalGroup"}
PduOps == {"Com_TriggerIPDUSend", "Com_RxIndication", "Com_TriggerTransmit",
           "Com_TxConfirmation"}
VoidOps == {"Com_RxIndication", "Com_TxConfirmation"}

\* C7 (invalid handle): a signal function called with an id >= numOfSignals
\* and an I-PDU function called with an id >= numOfIPdus returns E_NOT_OK
\* (when it returns a value), leaves GroupStatus, the timers and the buffers
\* as they were, stores nothing through its pointer and calls neither a
\* callback nor PduR_ComTransmit.
InvalidHandleStep ==
    ((op'.name \in SignalOps /\ op'.id >= numOfSignals)
     \/ (op'.name \in PduOps /\ op'.id >= numOfIPdus)) =>
        /\ ret' = IF op'.name \in VoidOps THEN "void" ELSE E_NOT_OK
        /\ UNCHANGED <<GroupStatus, timer, buf, initData>>
        /\ calls' = <<>>
        /\ ~out'.written
        /\ fault' = "none"
C7_InvalidHandle == [][InvalidHandleStep]_vars

\* Com_ReceiveSignalGroup was called with the id one past the last signal,
\* with I-PDUs enabled.
C7_Witness ==
    /\ op.name = "Com_ReceiveSignalGroup"
    /\ op.id = numOfSignals
    /\ ret = E_NOT_OK
    /\ GroupStatus # {}
    /\ calls = <<>>

\* C8 (null pointer), as stated: Com_SendSignal with a valid id and a null
\* source returns E_NOT_OK without reading through the pointer and leaves
\* the buffers alone; so does Com_ReceiveSignal with a null destination.
NullPointerStep ==
    /\ (op'.name = "Com_SendSignal" /\ op'.id < numOfSignals
        /\ op'.arg.null) =>
          (ret' = E_NOT_OK /\ buf' = buf /\ fault' = "none")
    /\ (op'.name = "Com_ReceiveSignal" /\ op'.arg.null) =>
          (ret' = E_NOT_OK /\ buf' = buf /\ ~out'.written)
C8_NullPointer == [][NullPointerStep]_vars

\* C9 (unsupported signal on the send path), as stated: Com_SendSignal with
\* a valid source on a signal of a type or endianness Com.c has no case for
\* returns E_NOT_OK
\* and leaves the I-PDU buffer, the signal's update bit included, unchanged.
UnsupportedSendStep ==
    (op'.name = "Com_SendSignal" /\ op'.id < numOfSignals
     /\ ~op'.arg.null /\ ~Supported(op'.id)) =>
        (ret' = E_NOT_OK /\ buf' = buf)
C9_UnsupportedSend == [][UnsupportedSendStep]_vars

\* C10 (acceptance of a frame): Com_RxIndication for an enabled RX I-PDU
\* with a frame of at least the I-PDU's length copies exactly the first
\* `length` bytes of the frame into the I-PDU buffer, sets the timer to
\* Timeout whatever it was, and calls RxNotification once if configured;
\* no other buffer or timer changes.
RxAcceptStep ==
    \A p \in PduIds :
        (/\ op'.name = "Com_RxIndication"
         /\ op'.id = p
         /\ HasRx(p)
         /\ Active(p)
         /\ op'.arg.SduLength >= IPduConfigs[p].length) =>
            /\ buf'[p] = [i \in 0 .. (IPduConfigs[p].length - 1) |->
                            op'.arg.SduDataPtr[i]]
            /\ timer'[p] = IPduConfigs[p].rxConfig.Timeout
            /\ calls' = IF IPduConfigs[p].rxConfig.RxNotification
                        THEN <<Call("RxNotification", p, "void")>>
                        ELSE <<>>
            /\ \A q \in PduIds \ {p} : buf'[q] = buf[q] /\ timer'[q] = timer[q]
C10_RxAccept == [][RxAcceptStep]_vars

\* A 3-byte frame was accepted by the 2-byte I-PDU 0 (Timeout 4,
\* FirstTimeout 1): its first two bytes are in the buffer, the timer is 4.
C10_Witness ==
    /\ cfg = "SCHED1"
    /\ op.name = "Com_RxIndication"
    /\ op.id = 0
    /\ op.arg.SduLength = 3
    /\ buf[0] = Arr(<<34, 0>>)
    /\ timer[0] = 4
    /\ calls = <<Call("RxNotification", 0, "void")>>

\* I-PDU ids of the largest configuration.
AnyPduId == 0 .. 3

\* A frame shorter than the I-PDU is dropped: buffers and timers stay as
\* they were and no callback is made.
ShortFrameStep ==
    \A p \in PduIds :
        (/\ op'.name = "Com_RxIndication"
         /\ op'.id = p
         /\ op'.arg.SduLength < IPduConfigs[p].length) =>
            (buf' = buf /\ timer' = timer /\ calls' = <<>>)

\* An enabled RX I-PDU whose timer is running, and the same I-PDU timed out
\* (RxTOut called by the tick that took the timer to 0, if configured).
RxCounting(p) == p \in PduIds /\ HasRx(p) /\ Active(p) /\ timer[p] > 0
RxTimedOut(p) ==
    /\ p \in PduIds
    /\ HasRx(p)
    /\ timer[p] = 0
    /\ op.name = "Com_MainFunction"
    /\ IPduConfigs[p].rxConfig.RxTOut => CallCount(calls, "RxTOut", p) = 1

\* C11 (short frame on RX): Com_RxIndication with a frame shorter than the
\* I-PDU leaves the buffer and the RX timer unchanged and does not call
\* RxNotification; so when only short frames arrive and the ticks keep
\* coming, a running timer of an I-PDU that stays enabled reaches 0 and
\* RxTOut is called.
C11_ShortFrame ==
    /\ [][ShortFrameStep]_vars
    /\ \A p \in AnyPduId : RxCounting(p) ~> RxTimedOut(p)

\* Timeout 4, FirstTimeout 1: a 1-byte frame for the enabled 2-byte I-PDU 0
\* has just been dropped while its timer is running.
C11_Witness ==
    /\ cfg = "SCHED1"
    /\ op.name = "Com_RxIndication"
    /\ op.id = 0
    /\ op.arg.SduLength = 1
    /\ RxCounting(0)
    /\ buf[0] = Arr(<<0, 0>>)

\* C12 (Com_TriggerIPDUSend against the timer-driven send), as stated: for an
\* enabled TX I-PDU, Com_TriggerIPDUSend calls PduR_ComTransmit once and
\* leaves the timers and buffers as the loop body of Com_MainFunctionTx
\* leaves them when the I-PDU's timer expires: on E_OK the timer is
\* CycleTime and all update bits of the I-PDU are clear, otherwise the timer
\* is 1 and no update bit is changed.
TriggerSendStep ==
    \A p \in PduIds :
        (/\ op'.name = "Com_TriggerIPDUSend"
         /\ op'.id = p
         /\ HasTx(p)
         /\ Active(p)) =>
            /\ Len(calls') = 1
            /\ calls'[1].fn = "PduR_ComTransmit"
            /\ calls'[1].pdu = p
            /\ LET due == [timer |-> [timer EXCEPT ![p] = 1], buf |-> buf,
                           calls |-> <<>>]
                   st == MainTxStep(p, due, [q \in PduIds |-> calls'[1].ret])
               IN  /\ timer' = st.timer
                   /\ buf' = st.buf
                   /\ calls' = st.calls
C12_TriggerSendAsTimerSend == [][TriggerSendStep]_vars

\* C13 (TX confirmation): Com_TxConfirmation for an enabled TX I-PDU calls
\* TxNotification (if configured) and not ErrorNotification when result is
\* E_OK, ErrorNotification (if configured) and not TxNotification otherwise,
\* and leaves the timers, GroupStatus and the buffers unchanged.
TxConfirmationStep ==
    \A p \in PduIds :
        (/\ op'.name = "Com_TxConfirmation"
         /\ op'.id = p
         /\ HasTx(p)
         /\ Active(p)) =>
            /\ calls' =
                 IF op'.arg = E_OK
                 THEN IF IPduConfigs[p].txConfig.TxNotification
                      THEN <<Call("TxNotification", p, "void")>>
                      ELSE <<>>
                 ELSE IF IPduConfigs[p].txConfig.ErrorNotification
                      THEN <<Call("ErrorNotification", p, "void")>>
                      ELSE <<>>
            /\ UNCHANGED <<timer, GroupStatus, buf>>
C13_TxConfirmation == [][TxConfirmationStep]_vars

\* CycleTime 5, FirstTime 2: a failed transmission of I-PDU 1 has just been
\* confirmed in mid-cycle; ErrorNotification was called, the timer is still 3.
C13_Witness ==
    /\ cfg = "SCHED1"
    /\ op = OpRec("Com_TxConfirmation", 1, E_NOT_OK)
    /\ Active(1)
    /\ calls = <<Call("ErrorNotification", 1, "void")>>
    /\ timer[1] = 3

\* C14 (trigger transmit): Com_TriggerTransmit for a valid I-PDU id returns
\* E_OK exactly when the offered SduLength is at least the I-PDU's length,
\* and then the bytes it stores are those of the I-PDU buffer; otherwise it
\* returns E_NOT_OK and stores nothing; in both cases the timers,
\* GroupStatus and the buffers are unchanged.
TriggerTransmitStep ==
    \A p \in PduIds :
        (op'.name = "Com_TriggerTransmit" /\ op'.id = p) =>
            /\ IF op'.arg >= IPduConfigs[p].length
               THEN ret' = E_OK /\ out' = OutBytes(buf[p])
               ELSE ret' = E_NOT_OK /\ out' = NoOut
            /\ UNCHANGED <<timer, GroupStatus, buf>>
C14_TriggerTransmit == [][TriggerTransmitStep]_vars

\* The 2-byte I-PDU with both initial values packed was copied out to a
\* frame of exactly 2 bytes, in mid-cycle.
C14_Witness ==
    /\ cfg = "SIGTX"
    /\ op = OpRec("Com_TriggerTransmit", 0, 2)
    /\ ret = E_OK
    /\ buf[0] = Arr(<<33, 3>>)
    /\ out = OutBytes(Arr(<<33, 3>>))
    /\ timer[0] = 1

\* Bit q of a buffer (byte q \div 8, bit q % 8 counted from the LSB).
BufBit(b, q) == BitOf(b[q \div 8], q % 8)

\* The position after q in a big-endian field: one bit lower in the byte,
\* or, after the byte's LSB, the MSB of the next byte.
NextBigPos(q) == IF q % 8 = 0 THEN q + 15 ELSE q - 1
RECURSIVE BigWalk(_, _)
BigWalk(start, j) == IF j = 0 THEN start ELSE NextBigPos(BigWalk(start, j - 1))

\* The bit positions of a scalar signal's field.
FieldPositions(signal) ==
    IF signal.Endianness = "LITTLE"
    THEN signal.BitPosition .. (signal.BitPosition + signal.BitSize - 1)
    ELSE {BigWalk(signal.BitPosition, j) : j \in 0 .. (signal.BitSize - 1)}

IsScalar(signal) ==
    signal.type \in ScalarTypes /\ signal.Endianness \in {"BIG", "LITTLE"}
IsOpaque(signal) ==
    signal.type = "COM_UINT8N" \/ signal.Endianness = "OPAQUE"

\* The object at src holds a value of the two's-complement range of n bits.
InSignedRange(src, type, n) ==
    LET w == ReadUnsigned(src, NativeBytes(type))
    IN  \A i \in (n - 1) .. (8 * NativeBytes(type) - 1) : w[i] = w[n - 1]

\* C15 (sign extension round trip): for a signal of a signed type, either
\* endianness and any BitSize up to the type's width, sending a value x of
\* the two's-complement range of BitSize bits and then receiving stores x
\* (BitSize 32 included, where the mask is all ones).
C15_SignRoundTrip ==
    (/\ codec.stage = "received"
     /\ IsScalar(codec.signal)
     /\ codec.signal.type \in SignedTypes
     /\ InSignedRange(codec.src, codec.signal.type, codec.signal.BitSize)) =>
        /\ codec.sendRet = E_OK
        /\ codec.recv.ret = E_OK
        /\ codec.recv.out =
             OutBytes([k \in 0 .. (NativeBytes(codec.signal.type) - 1) |->
                         codec.src[k]])

\* -1024, the smallest value of 11 bits, went through a little-endian
\* COM_SINT16 field that starts at bit 5, and came back as 0xFC00.
C15_Witness ==
    /\ codec.stage = "received"
    /\ codec.signal.type = "COM_SINT16"
    /\ codec.signal.Endianness = "LITTLE"
    /\ codec.signal.BitPosition = 5
    /\ codec.signal.BitSize = 11
    /\ codec.src = Arr(<<0, 252, 0, 0>>)
    /\ codec.recv.out = OutBytes(Arr(<<0, 252>>))

\* C16 (opaque placement), as stated: for a COM_UINT8N or OPAQUE signal whose
\* BitPosition is a multiple of 8, the send stores the BitSize / 8 source
\* bytes at bytes BitPosition / 8 onwards and changes no other data byte,
\* and the receive stores the bytes of that same range.
C16_OpaquePlacement ==
    (/\ codec.stage \in {"sent", "received"}
     /\ IsOpaque(codec.signal)
     /\ codec.signal.BitPosition % 8 = 0) =>
        LET first == codec.signal.BitPosition \div 8
            n == codec.signal.BitSize \div 8
        IN  /\ codec.sendRet = E_OK
            /\ codec.stage = "sent" =>
                  \A i \in 0 .. (PackerBufLen - 2) :
                      codec.ptr[i] = IF i \in first .. (first + n - 1)
                                     THEN codec.src[i - first]
                                     ELSE codec.before[i]
            /\ codec.stage = "received" =>
                  /\ codec.recv.ret = E_OK
                  /\ codec.recv.out =
                       OutBytes([k \in 0 .. (n - 1) |-> codec.ptr[first + k]])

\* C17 (codec round trip): for both endiannesses, every width from 1 to 32
\* and every start at which the field lies in the buffer, a 32-bit value v
\* written to the field is read back as v masked to the width; little
\* endian puts bit k of the field at position start + k, big endian puts
\* the field's MSB at start and each next lower bit one bit down, wrapping
\* to the MSB of the next byte.
C17_CodecRoundTrip ==
    (/\ codec.stage \in {"sent", "received"}
     /\ codec.signal.type = "COM_UINT32"
     /\ codec.signal.Endianness \in {"BIG", "LITTLE"}) =>
        LET v == ReadUnsigned(codec.src, 4)
            start == codec.signal.BitPosition
            width == codec.signal.BitSize
        IN  /\ codec.sendRet = E_OK
            /\ \A k \in 0 .. (width - 1) :
                  BufBit(codec.ptr,
                         IF codec.signal.Endianness = "LITTLE"
                         THEN start + k
                         ELSE BigWalk(start, width - 1 - k)) = v[k]
            /\ codec.stage = "received" =>
                  /\ codec.recv.ret = E_OK
                  /\ codec.recv.out =
                       OutBytes(StoreBytes([i \in WordBits |->
                                   IF i < width THEN v[i] ELSE 0], 4))

\* 0xABC went into a big-endian field of 12 bits starting at bit 13 of a
\* cleared buffer: bytes 1 and 2 are 0x2A and 0xF0, and 0xABC came back.
C17_Witness ==
    /\ codec.stage = "received"
    /\ codec.signal.type = "COM_UINT32"
    /\ codec.signal.Endianness = "BIG"
    /\ codec.signal.BitPosition = 13
    /\ codec.signal.BitSize = 12
    /\ codec.src = Arr(<<188, 10, 0, 0>>)
    /\ codec.ptr = Arr(<<0, 42, 240, 0, 0, 0>>)
    /\ codec.recv.out = OutBytes(Arr(<<188, 10, 0, 0>>))

\* C18 (codec non-interference): sending a scalar signal, of either
\* endianness, changes only the bits of its field and sets its own update
\* bit; every other bit of the buffer is as before.
C18_NonInterference ==
    (codec.stage = "sent" /\ IsScalar(codec.signal)) =>
        \A q \in 0 .. (8 * PackerBufLen - 1) :
            q \notin FieldPositions(codec.signal) =>
                BufBit(codec.ptr, q) =
                    IF q = codec.signal.UpdateBit THEN 1
                    ELSE BufBit(codec.before, q)

\* -1 was sent to a signed field of 4 bits that starts at bit 5 of a
\* cleared buffer and straddles bytes 0 and 1: only bits 5 to 8 and the
\* update bit are set.
C18_Witness ==
    /\ codec.stage = "sent"
    /\ codec.signal.type = "COM_SINT8"
    /\ codec.signal.Endianness = "LITTLE"
    /\ codec.signal.BitPosition = 5
    /\ codec.signal.BitSize = 4
    /\ codec.signal.UpdateBit = PackerUpdateBit
    /\ codec.src = Arr(<<255, 0, 0, 0>>)
    /\ codec.ptr = Arr(<<224, 1, 0, 0, 0, 128>>)

\* C19 (group start): Com_IpduGroupStart with an id below numOfGroups sets
\* that bit of GroupStatus and arms the timer of every I-PDU whose
\* GroupRefMask contains the id (RX: FirstTimeout if > 0, else Timeout; TX:
\* FirstTime if > 0, else CycleTime), whether or not the I-PDU was already
\* enabled; the other timers are unchanged, and with an id that is not
\* below numOfGroups nothing changes.
GroupStartStep ==
    op'.name = "Com_IpduGroupStart" =>
        IF op'.id < numOfGroups
        THEN /\ GroupStatus' = GroupStatus \cup {op'.id}
             /\ \A p \in PduIds :
                   timer'[p] =
                     IF op'.id \notin IPduConfigs[p].GroupRefMask THEN timer[p]
                     ELSE IF HasRx(p) THEN RxArm(p)
                     ELSE IF HasTx(p) THEN FirstTick(p)
                     ELSE timer[p]
        ELSE UNCHANGED <<GroupStatus, timer, buf>>
C19_GroupStart == [][GroupStartStep]_vars

\* Group 1 was started after group 0: I-PDU 0 (groups 0 and 1, CycleTime 2),
\* I-PDU 1 (Timeout 2) and I-PDU 2 (FirstTime 1) are armed.
C19_Witness ==
    /\ cfg = "SCHED2"
    /\ op.name = "Com_IpduGroupStart"
    /\ op.id = 1
    /\ GroupStatus = {0, 1}
    /\ timer = Arr(<<2, 2, 1, 0>>)

\* What a tick does to I-PDU p: its timer afterwards, the result of the
\* loop body of Com_MainFunctionTx for it, and its RxTOut calls.
TickOf(p) ==
    LET rx == MainRxLoop(0, [timer |-> timer, calls |-> <<>>])
    IN  [rxTimer |-> rx.timer[p],
         rxTOut |-> CallCount(rx.calls, "RxTOut", p),
         tx |-> [res \in TxResults |->
                   MainTxStep(p, [timer |-> timer, buf |-> buf,
                                  calls |-> <<>>], res)]]

\* C20 (group stop): Com_IpduGroupStop clears only the bit of its id in
\* GroupStatus and changes no timer and no buffer; an I-PDU that is still
\* enabled afterwards is ticked and transmitted, and its frames accepted,
\* as before the call.
GroupStopStep ==
    op'.name = "Com_IpduGroupStop" =>
        /\ GroupStatus' = IF op'.id < numOfGroups
                          THEN GroupStatus \ {op'.id}
                          ELSE GroupStatus
        /\ UNCHANGED <<timer, buf>>
        /\ \A p \in PduIds :
              Active(p)' => (Active(p) /\ TickOf(p)' = TickOf(p))
C20_GroupStop == [][GroupStopStep]_vars

\* Group 1 was stopped in mid-cycle with group 0 still started: I-PDU 0
\* (groups 0 and 1) is still enabled and its timer is still 1.
C20_Witness ==
    /\ cfg = "SCHED2"
    /\ op.name = "Com_IpduGroupStop"
    /\ op.id = 1
    /\ GroupStatus = {0}
    /\ Active(0)
    /\ timer[0] = 1
    /\ timer[1] = 1

(***************************************************************************)
(* Inactive I-PDUs.                                                        *)
(***************************************************************************)
\* The scheduler and indication paths.
GatedOps == {"Com_MainFunctionRx", "Com_MainFunctionTx", "Com_MainFunction",
             "Com_RxIndication", "Com_TxConfirmation", "Com_TriggerTransmit",
             "Com_TriggerIPDUSend"}

\* The calls (PduR_ComTransmit and callbacks) a call list holds for I-PDU p.
CallsFor(cs, p) == {k \in 1 .. Len(cs) : cs[k].pdu = p}

\* C21 (inactive I-PDUs are skipped), as stated: while GroupRefMask and
\* GroupStatus of an I-PDU do not intersect, no main function,
\* Com_RxIndication, Com_TxConfirmation, Com_TriggerTransmit or
\* Com_TriggerIPDUSend changes its timer, copies bytes into or out of its
\* buffer, calls PduR_ComTransmit for it or invokes one of its callbacks.
InactiveSkipStep ==
    \A p \in PduIds :
        (op'.name \in GatedOps /\ ~Active(p)) =>
            /\ timer'[p] = timer[p]
            /\ buf'[p] = buf[p]
            /\ CallsFor(calls', p) = {}
            /\ op'.id = p => out' = NoOut
C21_InactiveSkipped == [][InactiveSkipStep]_vars

\* The same, for every path but Com_TriggerTransmit.
InactiveSkipStep_Gated ==
    \A p \in PduIds :
        (op'.name \in (GatedOps \ {"Com_TriggerTransmit"}) /\ ~Active(p)) =>
            /\ timer'[p] = timer[p]
            /\ buf'[p] = buf[p]
            /\ CallsFor(calls', p) = {}
            /\ op'.id = p => out' = NoOut
InactiveSkipped_Gated == [][InactiveSkipStep_Gated]_vars

(***************************************************************************)
(* Ordering within one tick.                                               *)
(***************************************************************************)
\* C22 (ordering within one tick): among the calls one Com_MainFunction
\* makes, every RxTOut comes before every PduR_ComTransmit; among the calls
\* one Com_MainFunctionTx makes (alone or within Com_MainFunction), the
\* PduR_ComTransmit calls are in ascending order of I-PDU index.
TickOrderStep ==
    /\ op'.name = "Com_MainFunction" =>
          \A j, k \in 1 .. Len(calls') :
              (calls'[j].fn = "RxTOut" /\ calls'[k].fn = "PduR_ComTransmit")
                  => j < k
    /\ op'.name \in MainTxOps =>
          \A j, k \in 1 .. Len(calls') :
              (/\ j < k
               /\ calls'[j].fn = "PduR_ComTransmit"
               /\ calls'[k].fn = "PduR_ComTransmit")
                  => calls'[j].pdu < calls'[k].pdu
C22_TickOrder == [][TickOrderStep]_vars

\* One tick has timed out RX I-PDU 1 and then transmitted TX I-PDUs 0 and 2,
\* which lie on either side of it in the configuration.
C22_Witness ==
    /\ cfg = "SCHED2"
    /\ op.name = "Com_MainFunction"
    /\ Len(calls) = 3
    /\ calls[1].fn = "RxTOut" /\ calls[1].pdu = 1
    /\ calls[2].fn = "PduR_ComTransmit" /\ calls[2].pdu = 0
    /\ calls[3].fn = "PduR_ComTransmit" /\ calls[3].pdu = 2

(***************************************************************************)
(* The TX timer between operations.                                        *)
(***************************************************************************)
Max(a, b) == IF a >= b THEN a ELSE b

\* The TX timer of I-PDU p is armed: between 1 and the larger of FirstTime
\* and CycleTime.
TxArmed(p) ==
    /\ 1 <= timer[p]
    /\ timer[p] <= Max(IPduConfigs[p].txConfig.FirstTime,
                       IPduConfigs[p].txConfig.CycleTime)

\* C23 (TX timer invariant): between operations, the timer of every enabled
\* TX I-PDU with CycleTime >= 1 is at least 1 and at most
\* max(FirstTime, CycleTime): 0 is never seen and the I-PDU is never left
\* un-armed.
C23_TxTimerArmed ==
    \A p \in PduIds :
        (HasTx(p) /\ IPduConfigs[p].txConfig.CycleTime >= 1 /\ Active(p))
            => TxArmed(p)

\* CycleTime 2, FirstTime 3: I-PDU 0 has been enabled through group 1 and
\* waits its FirstTime of 3, above its CycleTime; I-PDU 1 (CycleTime 1) is
\* armed with 1 after a transmit that failed; I-PDU 2, whose CycleTime is 0,
\* is disabled with its timer at 0.
C23_Witness ==
    /\ cfg = "TXTIMER"
    /\ op = OpRec("Com_TriggerIPDUSend", 1, 0)
    /\ calls = <<Call("PduR_ComTransmit", 1, E_NOT_OK)>>
    /\ GroupStatus = {1}
    /\ timer[0] = 3
    /\ timer[1] = 1
    /\ timer[2] = 0

\* Without the condition on CycleTime the invariant does not hold: an
\* enabled TX I-PDU with CycleTime 0 is left at 0 by its first successful
\* transmit.
TxTimerArmed_AnyCycle ==
    \A p \in PduIds : (HasTx(p) /\ Active(p)) => TxArmed(p)

(***************************************************************************)
(* The rx_daemon thread of the CAN simulator.                              *)
(***************************************************************************)
\* No socket_probe or socket_close call is in progress.
Quiescent == \A t \in Callers : threads.caller[t].pc = "idle"

\* The rx_daemon threads that have not exited.
RunningDaemons == {d \in Daemons : threads.daemon[d] \in {"test", "poll"}}

\* Between calls, a daemon runs (terminated is false and the thread has not
\* exited) exactly when the handle list is not empty.
DaemonMatchesList ==
    Quiescent =>
        ((~socketH.terminated /\ RunningDaemons # {})
            <=> socketH.head # <<>>)

AtMostOneDaemon == Cardinality(RunningDaemons) <= 1

\* C24 (rx daemon of the CAN simulator), as stated: under any interleaving
\* of concurrent socket_probe and socket_close calls, whenever no call is in
\* progress the rx_daemon thread is running exactly when the handle list is
\* not empty, and at no time is there more than one rx_daemon thread.
C24_RxDaemon == DaemonMatchesList /\ AtMostOneDaemon

====
